---- MODULE Spec2Model ----
(***************************************************************************)
(* Book crawler: storage (utils/database.py), change detection             *)
(* (scheduler/book_scheduler.py) and the read-only HTTP API (api/main.py). *)
(*                                                                         *)
(* Conventions.  Prices are kept in pence (25.99 is 2599).  Python's None  *)
(* is the value None.  A pydantic model and its model_dump() are the same  *)
(* record.  The currency sign is written "GBP".  crawl_timestamp, upc and   *)
(* image_url are written and never read by the modelled code, and          *)
(* detected_at is read only to order the change log, which it orders as    *)
(* the log was written; they are left out of the records.  The texts of a  *)
(* response that no property reads (timestamps, notices) are left out too. *)
(***************************************************************************)
EXTENDS Integers, Sequences, FiniteSets, TLC

VARIABLES
    books,      \* books collection: book_id -> document (unique index on book_id)
    changes,    \* changes collection, in insertion order
    dc,         \* the last ChangeDetector.detect_changes invocation
    req,        \* the last HTTP request handled by the API
    resp,       \* its response
    pg,         \* a client paging through Database.query_books
    rl,         \* the API's rate limiter: its counters and the last request it saw
    ft,         \* a crawler session: its semaphore and the fetch_page calls made in it
    crawl_state,\* crawl_state collection: the checkpoint document, if any
    cw,         \* the crawler runner: the run in progress and what it has done
    sc,         \* the scheduler daemon: its job, its clock and the cycle in progress
    sto,        \* a direct caller of the storage operations: its last call
    fn          \* a direct caller of the other functions: its last call and the result

(* storage, detector, API request and paging client *)
core == <<books, changes, dc, req, resp, pg>>

(* the other components *)
aux == <<rl, ft, crawl_state, cw, sc, sto, fn>>

vars == <<books, changes, dc, req, resp, pg, aux>>

-----------------------------------------------------------------------------
(* Bounds of the model *)

MaxCrawl == 2

MaxLogged == 3

MaxLimit == 2

(* a detection cycle starts while the change log is shorter than this *)
MaxCycleLog == 2

(* settings.crawler_concurrent_requests, crawler_retry_attempts and *)
(* crawler_retry_delay, as configured for the model                 *)
crawler_concurrent_requests == 2

crawler_retry_attempts == 3

crawler_retry_delay == 3

(* runs of the crawler runner in one behaviour *)
MaxRuns == 2

(* settings.scheduler_interval_hours, and the hours of one behaviour *)
scheduler_interval_hours == 2

MaxTime == 6

(* settings.rate_limit_per_hour, as configured for the model *)
rate_limit_per_hour == 2

-----------------------------------------------------------------------------
(* Generic helpers *)

None == [py_none |-> TRUE]

Range(s) == {s[i] : i \in DOMAIN s}

Perms(S) == {p \in [1..Cardinality(S) -> S] : \A x \in S : \E i \in DOMAIN p : p[i] = x}

Min2(a, b) == IF a <= b THEN a ELSE b

-----------------------------------------------------------------------------
(* Domain models: utils/models.py *)

BookIds == {"a-light-in-the-attic_1000", "tipping-the-velvet_999"}

NameOf(book_id) ==
    IF book_id = "a-light-in-the-attic_1000" THEN "A Light in the Attic"
    ELSE IF book_id = "soumission_998" THEN "Soumission" ELSE "Tipping the Velvet"

BookPrice(including_tax, excluding_tax, currency) ==
    [including_tax |-> including_tax, excluding_tax |-> excluding_tax, currency |-> currency]

ObjectId(n) == [oid |-> n]

ChangeLog(book_id, book_name, change_type, changed_fields, old_values, new_values) ==
    [book_id |-> book_id, book_name |-> book_name, change_type |-> change_type,
     changed_fields |-> changed_fields, old_values |-> old_values, new_values |-> new_values]

-----------------------------------------------------------------------------
(* Database.compute_content_hash: SHA-256 of str(sorted(relevant_fields.items())). *)
(* The digest is modelled by the hashed text itself (the six relevant fields in    *)
(* key order), i.e. SHA-256 is taken to be collision free.  book_data.get(key) of  *)
(* a key the map lacks is None, written <<>> in the maps that may lack keys.       *)

(* the keys of relevant_fields, in the order sorted() puts the items *)
relevant_keys ==
    <<"availability", "availability_count", "description", "name", "price", "rating">>

book_data_get(book_data, key) ==
    IF key \in DOMAIN book_data THEN book_data[key] ELSE <<>>

compute_content_hash_no_rating(book_data) ==
    <<"sha256">> \o [i \in 1..(Len(relevant_keys) - 1) |-> book_data_get(book_data, relevant_keys[i])]

compute_content_hash(book_data) ==
    <<"sha256">> \o [i \in 1..Len(relevant_keys) |-> book_data_get(book_data, relevant_keys[i])]

(* BookCrawler.parse_book_page, from the values read off the page: the Book it *)
(* builds, with metadata.content_hash computed over the parsed fields and      *)
(* raw_html set to the page markup.                                            *)
Book(book_id, category, including_tax, currency) ==
    LET price == BookPrice(including_tax, including_tax, currency)
        book_data_for_hash ==
            [name |-> NameOf(book_id), price |-> price, availability |-> "In stock (22 available)",
             availability_count |-> 22, description |-> "It's hard to imagine", rating |-> "Three"]
    IN  [book_id |-> book_id,
         name |-> NameOf(book_id),
         description |-> "It's hard to imagine",
         category |-> category,
         price |-> price,
         availability |-> "In stock (22 available)",
         availability_count |-> 22,
         num_reviews |-> 0,
         rating |-> "Three",
         rating_numeric |-> 3,
         metadata |-> [source_url |-> <<"catalogue", book_id, "index.html">>,
                       content_hash |-> compute_content_hash(book_data_for_hash)],
         raw_html |-> <<"html", book_id, category, including_tax, currency>>]

(* The versions of a catalogue page the crawler may find: the page as first seen, *)
(* and the page with its price or its category changed.  The currency is the one *)
(* parse_book_page always sets.                                                   *)
PageVersions ==
    {<<"Fiction", 2599, "GBP">>, <<"Fiction", 2299, "GBP">>, <<"Poetry", 2599, "GBP">>}

CrawledBooks == {Book(id, v[1], v[2], v[3]) : id \in BookIds, v \in PageVersions}

CrawlLists == UNION {[1..n -> CrawledBooks] : n \in 0..MaxCrawl}

-----------------------------------------------------------------------------
(* Crawler: BookCrawler.fetch_page in a session (crawler/book_crawler.py).  A *)
(* call is [pc, attempt, attempts, waits, last]: where it stands, the loop    *)
(* variable, the requests it has issued, the backoff waits it has made, and   *)
(* the outcome of the request of this turn of the loop, once it has one.      *)

FetchTasks == {"t1", "t2", "t3"}

(* what client.get(url) followed by raise_for_status() can end in: a response *)
(* with its status, httpx.RequestError (network, transport, timeout), or      *)
(* another exception                                                          *)
FetchOutcomes ==
    {[status |-> 200], [status |-> 404], [status |-> 499], [status |-> 500],
     [error |-> "RequestError"], [error |-> "Exception"]}

NewFetch == [pc |-> "new", attempt |-> 0, attempts |-> 0, waits |-> <<>>, last |-> [none |-> TRUE]]

(* the session after __aenter__: the semaphore at its initial value, no call made *)
NoFetches == [sem |-> crawler_concurrent_requests, task |-> [t \in FetchTasks |-> NewFetch]]

CanAcquire_always(sem) == TRUE

(* asyncio.Semaphore: acquire() goes through when the value is positive *)
CanAcquire(sem) == sem > 0

(* response.raise_for_status() passes a 2xx response *)
IsSuccess(outcome) == "status" \in DOMAIN outcome /\ outcome.status \in 200..299

ShouldRetry_any(outcome) == TRUE

(* the except clauses of fetch_page: an HTTPStatusError is retried when the   *)
(* status is >= 500, a RequestError and any other exception always            *)
ShouldRetry(outcome) == "status" \in DOMAIN outcome => outcome.status >= 500

WaitTime_flat(attempt) == crawler_retry_delay

(* wait_time = self.retry_delay * (attempt + 1) *)
WaitTime(attempt) == crawler_retry_delay * (attempt + 1)

(* the body of "for attempt in range(self.retry_attempts)" after the request *)
(* of this attempt has ended in outcome                                      *)
AfterRequest(task, outcome) ==
    IF IsSuccess(outcome)
    THEN [task EXCEPT !.pc = "returned", !.last = outcome]
    ELSE IF ShouldRetry(outcome) /\ task.attempt < crawler_retry_attempts - 1
    THEN [task EXCEPT !.pc = "sleep", !.last = outcome,
                      !.waits = Append(@, WaitTime(task.attempt))]
    ELSE [task EXCEPT !.pc = "raised", !.last = outcome]

-----------------------------------------------------------------------------
(* Book construction: the field constraints of utils/models.py, and the rating *)
(* that parse_book_page reads off p.star-rating.  An optional field is <<>>    *)
(* or <<value>>.                                                               *)

(* rating_map of parse_book_page *)
rating_map == [r \in {"One", "Two", "Three", "Four", "Five"} |->
                 CASE r = "One" -> 1 [] r = "Two" -> 2 [] r = "Three" -> 3
                   [] r = "Four" -> 4 [] r = "Five" -> 5]

(* Book(...): the constraints declared on the fields: name min_length=1,  *)
(* num_reviews ge=0, rating_numeric ge=0 le=5; rating is any text or None *)
BookAccepts(name, rating, rating_numeric, num_reviews) ==
    /\ name # ""
    /\ num_reviews >= 0
    /\ rating_numeric # <<>> => rating_numeric[1] >= 0 /\ rating_numeric[1] <= 5

(* "for cls in classes: if cls in rating_map: ...; break", None when the *)
(* element is missing (classes = <<>>) or carries no rating class        *)
RECURSIVE parse_rating(_)
parse_rating(classes) ==
    IF classes = <<>> THEN [rating |-> <<>>, rating_numeric |-> <<>>]
    ELSE IF Head(classes) \in DOMAIN rating_map
    THEN [rating |-> <<Head(classes)>>, rating_numeric |-> <<rating_map[Head(classes)]>>]
    ELSE parse_rating(Tail(classes))

-----------------------------------------------------------------------------
(* Link normalization of BookCrawler.get_all_book_urls.  A relative link is   *)
(* the sequence of its path segments ("../../x/index.html" is                 *)
(* <<"..", "..", "x", "index.html">>), an absolute URL the site base followed *)
(* by the segments of its path.                                               *)

(* the first n segments are "..", each followed by "/" *)
startswith_dots(book_url, n) ==
    /\ Len(book_url) > n
    /\ \A i \in 1..n : book_url[i] = ".."

(* str.replace(n times "../", ""): every occurrence goes, left to right *)
RECURSIVE replace_dots(_, _)
replace_dots(book_url, n) ==
    IF book_url = <<>> THEN <<>>
    ELSE IF startswith_dots(book_url, n)
    THEN replace_dots(SubSeq(book_url, n + 1, Len(book_url)), n)
    ELSE <<Head(book_url)>> \o replace_dots(Tail(book_url), n)

(* urljoin of a directory of the site with a relative link: ".." leaves the *)
(* directory it is in, and there is nothing above the root                  *)
RECURSIVE urljoin(_, _)
urljoin(directory, book_url) ==
    IF book_url = <<>> THEN <<"base_url">> \o directory
    ELSE IF Head(book_url) = ".."
    THEN urljoin(IF directory = <<>> THEN <<>> ELSE SubSeq(directory, 1, Len(directory) - 1),
                 Tail(book_url))
    ELSE urljoin(Append(directory, Head(book_url)), Tail(book_url))

(* the branches of "if book_url.startswith(...)" *)
full_url(book_url) ==
    IF startswith_dots(book_url, 3) THEN urljoin(<<>>, replace_dots(book_url, 3))
    ELSE IF startswith_dots(book_url, 2) THEN urljoin(<<>>, replace_dots(book_url, 2))
    ELSE IF Len(book_url) > 1 /\ Head(book_url) = "catalogue" THEN urljoin(<<>>, book_url)
    ELSE urljoin(<<"catalogue">>, book_url)

-----------------------------------------------------------------------------
(* Persistence layer: utils/database.py.  A storage state is a record        *)
(* [books, changes]; a write returns [ok, db], ok = FALSE when it raised.    *)

insert_book_lost(db, book, fails) == [ok |-> ~fails, db |-> db]

insert_book_no_index(db, book, fails) ==
    IF fails THEN [ok |-> FALSE, db |-> db]
    ELSE [ok |-> TRUE,
          db |-> [db EXCEPT !.books = (book.book_id :>
                     (("_id" :> ObjectId(Cardinality(DOMAIN db.books) + 1)) @@ book)) @@ @]]

update_book_quiet(db, book_id, update_data, fails) == [ok |-> TRUE, db |-> db]

(* insert_one on books: the unique index on book_id rejects a second document *)
(* with the same book_id (DuplicateKeyError); fails is a backend error.       *)
insert_book(db, book, fails) ==
    IF fails \/ book.book_id \in DOMAIN db.books
    THEN [ok |-> FALSE, db |-> db]
    ELSE LET _id == ObjectId(Cardinality(DOMAIN db.books) + 1)
             book_dict == ("_id" :> _id) @@ book
         IN  [ok |-> TRUE,
              db |-> [db EXCEPT !.books = (book.book_id :> book_dict) @@ db.books]]

(* update_one({"book_id": book_id}, {"$set": update_data}) *)
update_book(db, book_id, update_data, fails) ==
    IF fails THEN [ok |-> FALSE, db |-> db]
    ELSE IF book_id \notin DOMAIN db.books THEN [ok |-> TRUE, db |-> db]
    ELSE [ok |-> TRUE,
          db |-> [db EXCEPT !.books = [@ EXCEPT ![book_id] = update_data @@ @]]]

log_change_front(db, change, fails) ==
    IF fails THEN [ok |-> FALSE, db |-> db]
    ELSE LET _id == ObjectId(1000 + Len(db.changes) + 1)
         IN  [ok |-> TRUE,
              db |-> [db EXCEPT !.changes = <<("_id" :> _id) @@ change>> \o @]]

(* insert_one on changes *)
log_change(db, change, fails) ==
    IF fails THEN [ok |-> FALSE, db |-> db]
    ELSE LET _id == ObjectId(1000 + Len(db.changes) + 1)
         IN  [ok |-> TRUE,
              db |-> [db EXCEPT !.changes = Append(@, ("_id" :> _id) @@ change)]]

(* find_one({"book_id": book_id}); a backend error is logged and None returned *)
get_book_by_id(db, book_id, fails) ==
    IF fails \/ book_id \notin DOMAIN db.books THEN None ELSE db.books[book_id]

(* find_one({"metadata.source_url": url}); a backend error is logged and None *)
(* returned                                                                   *)
get_book_by_url(db, url, fails) ==
    LET found == {id \in DOMAIN db.books : db.books[id].metadata.source_url = url}
    IN  IF fails \/ found = {} THEN None ELSE db.books[CHOOSE id \in found : TRUE]

(* find({}) to_list; any backend error is logged and an empty list returned *)
get_all_books(db, fails) ==
    IF fails THEN {} ELSE {db.books[id] : id \in DOMAIN db.books}

-----------------------------------------------------------------------------
(* Queries of the persistence layer *)

(* Spelling of the category texts and patterns used, for the regex match *)
Spell(s) ==
    CASE s = "Fiction" -> <<"F", "i", "c", "t", "i", "o", "n">>
      [] s = "Poetry" -> <<"P", "o", "e", "t", "r", "y">>
      [] s = "fic" -> <<"f", "i", "c">>
      [] s = "POE" -> <<"P", "O", "E">>
      [] s = "History" -> <<"H", "i", "s", "t", "o", "r", "y">>

Lower(c) ==
    CASE c = "F" -> "f" [] c = "P" -> "p" [] c = "H" -> "h" [] c = "O" -> "o" [] c = "E" -> "e"
      [] OTHER -> c

(* {"$regex": pattern, "$options": "i"} for a pattern without metacharacters: *)
(* the pattern occurs somewhere in the text, letter case ignored               *)
RegexMatchI(pattern, text) ==
    LET pat == [i \in DOMAIN Spell(pattern) |-> Lower(Spell(pattern)[i])]
        txt == [i \in DOMAIN Spell(text) |-> Lower(Spell(text)[i])]
    IN  \E i \in 0..(Len(txt) - Len(pat)) : SubSeq(txt, i + 1, i + Len(pat)) = pat

(* Query parameters that may be absent are <<>> (absent) or <<value>>. *)
Given(param) == param # <<>>

(* query_filter of query_books, applied to one document *)
Matches(doc, category, min_price, max_price, rating) ==
    /\ (Given(category) /\ category[1] # "") => RegexMatchI(category[1], doc.category)
    /\ Given(min_price) => doc.price.including_tax >= min_price[1]
    /\ Given(max_price) => doc.price.including_tax <= max_price[1]
    /\ Given(rating) => doc.rating_numeric = rating[1]

(* binary order of the names in use *)
NameRank(name) == IF name = "A Light in the Attic" THEN 1 ELSE 2

(* sort_mapping.get(sort_by, ("name", ASCENDING)): the key of a document, negated *)
(* for a DESCENDING sort, so that the sort is ascending in SortKey                 *)
SortKey(doc, sort_by) ==
    CASE sort_by = "rating" -> 0 - doc.rating_numeric
      [] sort_by = "price" -> doc.price.including_tax
      [] sort_by = "reviews" -> 0 - doc.num_reviews
      [] OTHER -> NameRank(doc.name)

MatchingIds(db, category, min_price, max_price, rating) ==
    {id \in DOMAIN db.books : Matches(db.books[id], category, min_price, max_price, rating)}

(* cursor.sort(field, direction): the orders in which the server may return the *)
(* matching documents.  The sort fixes the order of documents with different    *)
(* keys only; documents with equal keys come in an order the server chooses     *)
(* anew for each query.                                                         *)
SortedOrders(db, ids, sort_by) ==
    {o \in Perms(ids) :
        \A i, j \in DOMAIN o :
            i < j => SortKey(db.books[o[i]], sort_by) <= SortKey(db.books[o[j]], sort_by)}

(* query_books: find(query_filter).sort(..).skip(skip).limit(limit), then          *)
(* count_documents(query_filter); order is the order the server returned for this  *)
(* query; any backend error gives ([], 0)                                          *)
query_books(db, category, min_price, max_price, rating, sort_by, skip, limit, order, fails) ==
    IF fails THEN [books |-> <<>>, total |-> 0]
    ELSE [books |-> [k \in 1..Min2(limit, IF Len(order) > skip THEN Len(order) - skip ELSE 0) |->
                        db.books[order[skip + k]]],
          total |-> Cardinality(MatchingIds(db, category, min_price, max_price, rating))]

(* get_recent_changes: sort by detected_at descending, skip, limit, and the count. *)
(* detected_at is the construction time of the ChangeLog, so newest first is the   *)
(* reverse of the insertion order.                                                 *)
get_recent_changes(db, limit, skip, fails) ==
    IF fails THEN [changes |-> <<>>, total |-> 0]
    ELSE LET n == Len(db.changes)
         IN  [changes |-> [k \in 1..Min2(limit, IF n > skip THEN n - skip ELSE 0) |->
                              db.changes[n + 1 - (skip + k)]],
              total |-> n]

-----------------------------------------------------------------------------
(* Change detector: scheduler/book_scheduler.py *)

fields_to_compare ==
    <<"name", "description", "category", "price.including_tax", "price.excluding_tax",
      "availability", "availability_count", "num_reviews", "rating", "rating_numeric">>

(* the extractor applied to old_book.get(field_key), and the getattr chain on new_book *)
FieldValue(book, field_name) ==
    CASE field_name = "price.including_tax" -> book.price.including_tax
      [] field_name = "price.excluding_tax" -> book.price.excluding_tax
      [] OTHER -> book[field_name]

compare_books_reversed(old_book, new_book) ==
    LET Differs(f) == FieldValue(old_book, f) # FieldValue(new_book, f)
        in_order == SelectSeq(fields_to_compare, Differs)
        changed_fields == [i \in 1..Len(in_order) |-> in_order[Len(in_order) + 1 - i]]
        old_values == [f \in Range(changed_fields) |-> FieldValue(old_book, f)]
        new_values == [f \in Range(changed_fields) |-> FieldValue(new_book, f)]
    IN  IF changed_fields # <<>>
        THEN ChangeLog(new_book.book_id, new_book.name, "updated",
                       changed_fields, old_values, new_values)
        ELSE None

compare_books_swapped(old_book, new_book) ==
    LET Differs(f) == FieldValue(old_book, f) # FieldValue(new_book, f)
        changed_fields == SelectSeq(fields_to_compare, Differs)
        old_values == [f \in Range(changed_fields) |-> FieldValue(new_book, f)]
        new_values == [f \in Range(changed_fields) |-> FieldValue(old_book, f)]
    IN  IF changed_fields # <<>>
        THEN ChangeLog(new_book.book_id, new_book.name, "updated",
                       changed_fields, old_values, new_values)
        ELSE None

compare_books(old_book, new_book) ==
    LET Differs(f) == FieldValue(old_book, f) # FieldValue(new_book, f)
        changed_fields == SelectSeq(fields_to_compare, Differs)
        old_values == [f \in Range(changed_fields) |-> FieldValue(old_book, f)]
        new_values == [f \in Range(changed_fields) |-> FieldValue(new_book, f)]
    IN  IF changed_fields # <<>>
        THEN ChangeLog(new_book.book_id, new_book.name, "updated",
                       changed_fields, old_values, new_values)
        ELSE None

HashChanged_always(old_book, new_book) == TRUE

(* "if old_hash != new_hash" *)
HashChanged(old_book, new_book) ==
    LET old_hash == old_book.metadata.content_hash
        new_hash == new_book.metadata.content_hash
    IN  old_hash # new_hash

(* State of one detect_changes run: db, the local list changes, new_book_ids,   *)
(* whether a write raised, and three counts kept for the properties: the        *)
(* storage writes issued so far, the compare_books calls made so far, and per   *)
(* crawled book what its loop iteration did.  fail_at = k makes the k-th write  *)
(* raise a backend error (0: none does).                                        *)
DetectStart(db) ==
    [db |-> db, changes |-> <<>>, new_book_ids |-> {}, writes |-> 0, compared |-> 0,
     raised |-> FALSE, trace |-> <<>>]

(* the body of "for new_book in new_books" for one new_book *)
DetectOne(st, new_book, existing_book_map, fail_at) ==
    LET ids == st.new_book_ids \cup {new_book.book_id}
        w == st.writes + 1
    IN  IF new_book.book_id \in DOMAIN existing_book_map
        THEN LET old_book == existing_book_map[new_book.book_id]
             IN  IF HashChanged(old_book, new_book)
                 THEN LET change == compare_books(old_book, new_book)
                      IN  IF change # None
                          THEN LET r == update_book(st.db, new_book.book_id, new_book, w = fail_at)
                               IN  [st EXCEPT !.new_book_ids = ids,
                                              !.compared = @ + 1,
                                              !.changes = Append(@, change),
                                              !.writes = w,
                                              !.db = r.db,
                                              !.raised = ~r.ok]
                          ELSE [st EXCEPT !.new_book_ids = ids, !.compared = @ + 1]
                 ELSE [st EXCEPT !.new_book_ids = ids]
        ELSE LET change_log == ChangeLog(new_book.book_id, new_book.name, "new", <<>>, None, None)
                 r == insert_book(st.db, new_book, w = fail_at)
             IN  [st EXCEPT !.new_book_ids = ids,
                            !.changes = Append(@, change_log),
                            !.writes = w,
                            !.db = r.db,
                            !.raised = ~r.ok]

RECURSIVE DetectLoop(_, _, _, _, _)
DetectLoop(st, new_books, i, existing_book_map, fail_at) ==
    IF i > Len(new_books) \/ st.raised THEN st
    ELSE LET nxt == DetectOne(st, new_books[i], existing_book_map, fail_at)
             did == [first |-> Len(st.changes) + 1, last |-> Len(nxt.changes),
                     writes |-> nxt.writes - st.writes,
                     compared |-> nxt.compared - st.compared]
         IN  DetectLoop([nxt EXCEPT !.trace = Append(@, did)],
                        new_books, i + 1, existing_book_map, fail_at)

DetectDeleted_first(st, deleted_order, existing_book_map) ==
    IF st.raised THEN st
    ELSE [st EXCEPT !.changes =
            [k \in 1..Len(deleted_order) |->
                ChangeLog(deleted_order[k], existing_book_map[deleted_order[k]].name,
                          "deleted", <<>>, None, None)] \o @]

(* "for book_id in deleted_book_ids": deleted_order is the iteration order of the set *)
DetectDeleted(st, deleted_order, existing_book_map) ==
    IF st.raised THEN st
    ELSE [st EXCEPT !.changes = @ \o
            [k \in 1..Len(deleted_order) |->
                ChangeLog(deleted_order[k], existing_book_map[deleted_order[k]].name,
                          "deleted", <<>>, None, None)]]

(* "for change in changes: await db.log_change(change)" *)
RECURSIVE LogChanges(_, _, _)
LogChanges(st, k, fail_at) ==
    IF k > Len(st.changes) \/ st.raised THEN st
    ELSE LET w == st.writes + 1
             r == log_change(st.db, st.changes[k], w = fail_at)
         IN  LogChanges([st EXCEPT !.writes = w, !.db = r.db, !.raised = ~r.ok], k + 1, fail_at)

ExistingBookMap(db, read_fails) ==
    LET existing_books == get_all_books(db, read_fails)
    IN  [id \in {b.book_id : b \in existing_books} |-> db.books[id]]

DeletedBookIds(db, new_books, read_fails) ==
    DOMAIN ExistingBookMap(db, read_fails) \ {new_books[i].book_id : i \in DOMAIN new_books}

detect_changes(db, new_books, read_fails, fail_at, deleted_order) ==
    LET existing_book_map == ExistingBookMap(db, read_fails)
        looped == DetectLoop(DetectStart(db), new_books, 1, existing_book_map, fail_at)
        listed == DetectDeleted(looped, deleted_order, existing_book_map)
    IN  LogChanges(listed, 1, fail_at)

-----------------------------------------------------------------------------
(* Crawler: crawler/book_crawler.py *)

(* save_books_to_db: per book, update the record found by source URL or insert; *)
(* an error saving one book is logged and the loop goes on.                     *)
RECURSIVE save_books_to_db(_, _, _)
save_books_to_db(db, crawled, i) ==
    IF i > Len(crawled) THEN db
    ELSE LET book == crawled[i]
             existing_book == get_book_by_url(db, book.metadata.source_url, FALSE)
             r == IF existing_book # None
                  THEN update_book(db, book.book_id, book, FALSE)
                  ELSE insert_book(db, book, FALSE)
         IN  save_books_to_db(r.db, crawled, i + 1)

-----------------------------------------------------------------------------
(* HTTP API: api/main.py.  A request is [path, book_id, x_api_key, query]; the    *)
(* header X-API-Key and each query parameter is <<>> (absent) or <<value>>.  A    *)
(* text built from parts is the sequence of its parts.  An endpoint gives         *)
(* [response, db_calls]: the response sent and the storage calls it made.         *)

(* settings.api_key *)
settings_api_key == "test_api_key_12345"

Param(query, name, default) == IF query[name] = <<>> THEN default ELSE query[name][1]

HTTPException(status_code, detail) == [status_code |-> status_code, detail |-> detail]

JSONResponse(status_code, content) == [status_code |-> status_code, content |-> content]

Served(response) == [response |-> response, db_calls |-> <<>>]

(* str(ObjectId): the hexadecimal text of the identifier *)
str(_id) == [hex |-> _id.oid]

not_found_handler ==
    JSONResponse(404,
        [detail |-> <<"Endpoint not found">>,
         available_endpoints |->
             [root |-> "/", health |-> "/health", books |-> "/books",
              book_detail |-> "/books/{book_id}", changes |-> "/changes",
              documentation |-> "/docs"]])

(* What the application answers to a raised HTTPException: the handler registered *)
(* for the status code if there is one (404: not_found_handler), else the default *)
(* handler, which sends the exception's status and detail.                        *)
HandleHTTPException(exc) ==
    IF exc.status_code = 404 THEN not_found_handler
    ELSE JSONResponse(exc.status_code, [detail |-> exc.detail])

(* _rate_limit_exceeded_handler *)
RateLimitExceeded ==
    JSONResponse(429, [error |-> <<"Rate limit exceeded: ", "rate_limit_per_hour", " per 1 hour">>])

(* get_rate_limit_key: "api_key:<value>" for a non-empty X-API-Key header, else *)
(* "ip:<address>"                                                              *)
get_rate_limit_key(x_api_key, ip) ==
    IF x_api_key # <<>> /\ x_api_key[1] # ""
    THEN <<"api_key", x_api_key[1]>>
    ELSE <<"ip", ip>>

hit_loose(hits, key) ==
    LET count == IF key \in DOMAIN hits
                 THEN Min2(hits[key] + 1, rate_limit_per_hour + 2) ELSE 1
    IN  [ok |-> count <= rate_limit_per_hour + 1,
         hits |-> [k \in DOMAIN hits \cup {key} |-> IF k = key THEN count ELSE hits[k]]]

(* The fixed-window limiter's hit on a counter key <<identity, scope>>: the     *)
(* counter of the key's window is incremented (a key without a window starts one) *)
(* and the request is within the limit when the new count does not exceed it.   *)
(* Counts above the limit all behave alike and are kept at limit + 1.           *)
hit(hits, key) ==
    LET count == IF key \in DOMAIN hits
                 THEN Min2(hits[key] + 1, rate_limit_per_hour + 1) ELSE 1
    IN  [ok |-> count <= rate_limit_per_hour,
         hits |-> [k \in DOMAIN hits \cup {key} |-> IF k = key THEN count ELSE hits[k]]]

verify_api_key_open(x_api_key) == None

(* verify_api_key: None when the key is accepted, else the HTTPException raised *)
verify_api_key(x_api_key) ==
    IF x_api_key = <<>> \/ x_api_key[1] = ""
    THEN HTTPException(401, <<"API key is missing. Add header: X-API-Key">>)
    ELSE IF x_api_key[1] # settings_api_key
         THEN HTTPException(403, <<"Invalid API key">>)
         ELSE None

valid_sort_fields_wide == {"rating", "price", "reviews", "name", "title"}

valid_sort_fields == {"rating", "price", "reviews", "name"}

TotalPages_floor(total, page_size) == total \div page_size

(* total_pages = (total + page_size - 1) // page_size *)
TotalPages(total, page_size) == (total + page_size - 1) \div page_size

(* "if page_size < 1 or page_size > 100" *)
BadPageSize(page_size) == page_size < 1 \/ page_size > 100

(* the loop over the returned books: raw_html deleted, _id made a string *)
ExternalView(book) ==
    [f \in DOMAIN book \ {"raw_html"} |-> IF f = "_id" THEN str(book["_id"]) ELSE book[f]]

(* "if '_id' in doc: doc['_id'] = str(doc['_id'])" *)
WithStrId(doc) ==
    [f \in DOMAIN doc |-> IF f = "_id" THEN str(doc["_id"]) ELSE doc[f]]

(* the fields of a listing other than the items *)
Envelope(total, page, page_size) ==
    LET total_pages == TotalPages(total, page_size)
    IN  [total |-> total, page |-> page, page_size |-> page_size,
         total_pages |-> total_pages, has_next |-> page < total_pages,
         has_prev |-> page > 1]

root ==
    Served(JSONResponse(200,
        [message |-> "Book Crawler API", version |-> "1.0.0", documentation |-> "/docs",
         endpoints |-> [books |-> "/books", book_detail |-> "/books/{book_id}",
                        changes |-> "/changes", health |-> "/health"]]))

health_check(fails) ==
    [response |-> IF fails
                  THEN JSONResponse(503, [status |-> "unhealthy", database |-> "disconnected"])
                  ELSE JSONResponse(200, [status |-> "healthy", database |-> "connected"]),
     db_calls |-> <<[op |-> "find_one"]>>]

(* the body of get_books *)
get_books(db, query, order, fails) ==
    LET sort_by == Param(query, "sort_by", "name")
        page == Param(query, "page", 1)
        page_size == Param(query, "page_size", 20)
        skip == (page - 1) * page_size
        found == query_books(db, query.category, query.min_price, query.max_price,
                             query.rating, sort_by, skip, page_size, order, fails)
        books_out == [k \in DOMAIN found.books |-> ExternalView(found.books[k])]
    IN  IF sort_by \notin valid_sort_fields
        THEN Served(HandleHTTPException(HTTPException(400,
                 <<"Invalid sort_by field. Must be one of: ", "rating, price, reviews, name">>)))
        ELSE IF page < 1
        THEN Served(HandleHTTPException(HTTPException(400, <<"Page must be >= 1">>)))
        ELSE IF BadPageSize(page_size)
        THEN Served(HandleHTTPException(HTTPException(400,
                 <<"Page size must be between 1 and 100">>)))
        ELSE [response |-> JSONResponse(200, Envelope(found.total, page, page_size)
                                             @@ [books |-> books_out]),
              db_calls |-> <<[op |-> "query_books", sort_by |-> sort_by,
                              skip |-> skip, limit |-> page_size]>>]

(* the body of the endpoint get_book_by_id *)
get_book_by_id_endpoint(db, book_id, fails) ==
    LET book == get_book_by_id(db, book_id, fails)
    IN  [response |->
            IF book = None
            THEN HandleHTTPException(HTTPException(404,
                     <<"Book with ID '", book_id, "' not found">>))
            ELSE JSONResponse(200, WithStrId(book)),
         db_calls |-> <<[op |-> "get_book_by_id", book_id |-> book_id]>>]

(* the body of get_changes *)
get_changes(db, query, fails) ==
    LET page == Param(query, "page", 1)
        page_size == Param(query, "page_size", 50)
        skip == (page - 1) * page_size
        found == get_recent_changes(db, page_size, skip, fails)
        changes_out == [k \in DOMAIN found.changes |-> WithStrId(found.changes[k])]
    IN  IF page < 1
        THEN Served(HandleHTTPException(HTTPException(400, <<"Page must be >= 1">>)))
        ELSE IF BadPageSize(page_size)
        THEN Served(HandleHTTPException(HTTPException(400,
                 <<"Page size must be between 1 and 100">>)))
        ELSE [response |-> JSONResponse(200, Envelope(found.total, page, page_size)
                                             @@ [changes |-> changes_out]),
              db_calls |-> <<[op |-> "get_recent_changes", skip |-> skip, limit |-> page_size]>>]

Protected_limit_first(x_api_key, over_limit, served) ==
    LET denied == verify_api_key(x_api_key)
    IN  IF over_limit THEN Served(RateLimitExceeded)
        ELSE IF denied # None THEN Served(HandleHTTPException(denied))
        ELSE served

(* A route with Depends(verify_api_key) under @limiter.limit: the dependency is   *)
(* resolved first, then the limiter's wrapper checks the caller's window, then    *)
(* the body runs.  over_limit is the verdict of the fixed-window counter for this *)
(* request.                                                                       *)
Protected(x_api_key, over_limit, served) ==
    LET denied == verify_api_key(x_api_key)
    IN  IF denied # None THEN Served(HandleHTTPException(denied))
        ELSE IF over_limit THEN Served(RateLimitExceeded)
        ELSE served

(* A route without decorator: SlowAPIMiddleware checks the default limit, then *)
(* the body runs.                                                              *)
Public(over_limit, served) == IF over_limit THEN Served(RateLimitExceeded) ELSE served

-----------------------------------------------------------------------------
(* Actions *)

NoDetect == [status |-> "none"]

NoRequest == [path |-> "none"]

NoResponse == [response |-> "none"]

NoPaging == [status |-> "none"]

(* the limiter as constructed: no counter, no request seen *)
NoHits == [hits |-> <<>>, served |-> <<>>, last |-> [path |-> "none"]]

-----------------------------------------------------------------------------
(* Crawl checkpoint (utils/database.py) and the crawler runner: run_crawler,  *)
(* crawl_all_books, save_books_to_db (crawler/book_crawler.py), started by    *)
(* run_crawler.py with or without --resume.  crawl_state is <<>> or <<doc>>,  *)
(* the document with _id "latest".                                            *)

(* replace_one({"_id": "latest"}, ..., upsert=True); a backend error is logged *)
(* and not raised                                                              *)
save_crawl_state(collection, state, fails) == IF fails THEN collection ELSE <<state>>

(* find_one({"_id": "latest"}); a backend error is logged and None returned *)
get_crawl_state(collection, fails) ==
    IF fails \/ collection = <<>> THEN None ELSE collection[1]

(* what get_all_book_urls finds: the catalogue, in page order *)
CatalogUrls == <<"a-light-in-the-attic_1000", "tipping-the-velvet_999", "soumission_998">>

(* cw: the run's local variables (start_index, book_urls, i, books, the tasks *)
(* of the batch not yet finished and the results of those finished), and for  *)
(* the record: the URLs fetched in this run, the books parsed in batches      *)
(* whose checkpoint was written, and those an interrupted run leaves behind   *)
(* stats: the counters of the BookCrawler of the run; total_books: the number *)
(* of URLs get_all_book_urls returned; crawl_state: the checkpoint the run    *)
(* read, or None; saved: the crawl_state collection when the run began        *)
NoRun ==
    [status |-> "none", runs |-> 0, resume |-> FALSE, start_index |-> 0, book_urls |-> <<>>,
     total_books |-> 0, crawl_state |-> None, saved |-> <<>>,
     i |-> 0, pending |-> {}, batch_books |-> <<>>, books |-> <<>>,
     stats |-> [successful |-> 0, failed |-> 0],
     fetched |-> {}, checkpointed |-> {}, owed |-> {}, after_interrupt |-> FALSE]

book_urls_restart(book_urls, state) ==
    IF state = None \/ state.last_processed_index >= Len(book_urls)
    THEN book_urls
    ELSE SubSeq(book_urls, state.last_processed_index + 1, Len(book_urls))

(* book_urls[start_index:] when a checkpoint was read, else the whole list *)
book_urls_from(book_urls, state) ==
    IF state = None THEN book_urls
    ELSE SubSeq(book_urls, state.last_processed_index + 1, Len(book_urls))

(* how a crawl_book call goes: fetch_page gives no page, parse_book_page gives *)
(* no Book, an exception is raised inside the try block, or a Book is parsed   *)
CrawlOutcomes == {"no_html", "no_book", "exception", "book"}

crawl_book_uncounted(stats, url, outcome) ==
    IF outcome = "book"
    THEN [book |-> Book(url, "Fiction", 2599, "GBP"),
          stats |-> [stats EXCEPT !.successful = @ + 1]]
    ELSE IF outcome = "no_book" THEN [book |-> None, stats |-> stats]
    ELSE [book |-> None, stats |-> [stats EXCEPT !.failed = @ + 1]]

(* crawl_book(url): the value returned and the counters after it *)
crawl_book(stats, url, outcome) ==
    IF outcome = "no_html" THEN [book |-> None, stats |-> [stats EXCEPT !.failed = @ + 1]]
    ELSE IF outcome = "book"
    THEN [book |-> Book(url, "Fiction", 2599, "GBP"),
          stats |-> [stats EXCEPT !.successful = @ + 1]]
    ELSE IF outcome = "no_book" THEN [book |-> None, stats |-> [stats EXCEPT !.failed = @ + 1]]
    ELSE [book |-> None, stats |-> [stats EXCEPT !.failed = @ + 1]]

(* the positions of batch_urls = book_urls[i:i + batch_size] in book_urls *)
BatchPositions(book_urls, i) ==
    (i + 1)..Min2(i + crawler_concurrent_requests, Len(book_urls))

(* valid_books = [book for book in batch_books if book is not None], in the *)
(* order of the batch                                                       *)
ValidBooks(batch_books, positions) ==
    LET RECURSIVE Collect(_)
        Collect(q) == IF q \notin positions THEN <<>>
                      ELSE (IF batch_books[q] = None THEN <<>> ELSE <<batch_books[q]>>)
                           \o Collect(q + 1)
    IN  IF positions = {} THEN <<>>
        ELSE Collect(CHOOSE q \in positions : \A r \in positions : q <= r)

-----------------------------------------------------------------------------
(* Scheduler daemon: BookScheduler (scheduler/book_scheduler.py) run by        *)
(* run_scheduler.py.  sc holds the process (none, disabled, running, stopped,  *)
(* exited), the clock in hours, the job's next_run_time, and the invocation of *)
(* scheduled_crawl_and_detect in progress or last ended; for the record, the   *)
(* hours at which the job came due, the steps that failed in earlier           *)
(* invocations, and the invocations started.                                   *)

(* the steps of scheduled_crawl_and_detect inside its try block *)
CycleSteps == <<"connect", "crawl", "detect", "report_json", "report_csv", "alerts", "reports">>

(* changes_found: <<>> until detect_changes has returned, then whether the *)
(* list it returned is non-empty ("if changes"); alert: <<>> until         *)
(* send_alerts has called send_change_alert, then what that call did       *)
NoCycle ==
    [pc |-> "idle", steps_done |-> {}, failed_at |-> {}, error |-> FALSE,
     disconnected |-> FALSE, aborted |-> FALSE, changes_found |-> <<>>, alert |-> <<>>]

Called(op, fails, raised, empty, had_data) ==
    [op |-> op, fails |-> fails, raised |-> raised, empty |-> empty, had_data |-> had_data]

NoCall ==
    [last |-> Called("none", FALSE, FALSE, FALSE, FALSE), read_failed |-> FALSE,
     write_failed |-> {}]

NotStarted ==
    [status |-> "none", now |-> 0, started_at |-> 0, next_run |-> <<>>, cycle |-> NoCycle,
     due |-> {}, failed_steps |-> {}, started |-> 0, started_at_stop |-> <<>>]

(* where an SMTP session may fail: SMTP(host, port), starttls, login, send_message *)
SmtpFailures == {"nowhere", "connect", "starttls", "login", "send_message"}

send_change_alert_retry(alert_email_enabled, recipient, fails_at) ==
    IF ~alert_email_enabled \/ recipient = <<>> THEN [success |-> FALSE, sessions |-> 0]
    ELSE IF fails_at = "nowhere" THEN [success |-> TRUE, sessions |-> 1]
    ELSE [success |-> FALSE, sessions |-> 2]

(* EmailSender.send_change_alert: False without an SMTP session when alerts  *)
(* are disabled or no recipient is configured; else one _send_email, True    *)
(* when it went through and False when anything in it raised                 *)
send_change_alert(alert_email_enabled, recipient, fails_at) ==
    IF ~alert_email_enabled THEN [success |-> FALSE, sessions |-> 0]
    ELSE IF recipient = <<>> THEN [success |-> FALSE, sessions |-> 0]
    ELSE IF fails_at = "nowhere" THEN [success |-> TRUE, sessions |-> 1]
    ELSE [success |-> FALSE, sessions |-> 1]

HandlerOf_none(step) == "escapes"

(* where an exception raised by a step ends: send_alerts and generate_reports *)
(* catch their own, the others reach "except Exception" of the cycle          *)
HandlerOf(step) == IF step \in {"alerts", "reports"} THEN "swallowed" ELSE "caught"

StepAfter(step) ==
    LET k == CHOOSE j \in DOMAIN CycleSteps : CycleSteps[j] = step
    IN  IF k = Len(CycleSteps) THEN "disconnect" ELSE CycleSteps[k + 1]

CycleRunning(cycle) == cycle.pc \notin {"idle", "returned", "raised", "cut"}

AfterStep_reports(cycle, fails, changes_found) ==
    LET step == cycle.pc
    IN  IF ~fails
        THEN [cycle EXCEPT !.steps_done = @ \cup {step},
                           !.changes_found = IF step = "detect" THEN <<changes_found>> ELSE @,
                           !.pc = StepAfter(step)]
        ELSE IF HandlerOf(step) = "swallowed"
        THEN [cycle EXCEPT !.failed_at = @ \cup {step}, !.pc = StepAfter(step)]
        ELSE [cycle EXCEPT !.failed_at = @ \cup {step}, !.pc = "disconnect",
                           !.error = HandlerOf(step) = "escapes"]

(* one step of the invocation: it succeeds or raises; detect_changes may find *)
(* no change, and then the report and alert steps are skipped                 *)
AfterStep(cycle, fails, changes_found) ==
    LET step == cycle.pc
    IN  IF ~fails
        THEN [cycle EXCEPT !.steps_done = @ \cup {step},
                           !.changes_found = IF step = "detect" THEN <<changes_found>> ELSE @,
                           !.pc = IF step = "detect" /\ ~changes_found
                                  THEN "disconnect" ELSE StepAfter(step)]
        ELSE IF HandlerOf(step) = "swallowed"
        THEN [cycle EXCEPT !.failed_at = @ \cup {step}, !.pc = StepAfter(step)]
        ELSE [cycle EXCEPT !.failed_at = @ \cup {step}, !.pc = "disconnect",
                           !.error = HandlerOf(step) = "escapes"]


(* nothing is in progress: no detection run, no request, no paging client *)
NoEval == [op |-> "none"]

Idle == dc = NoDetect /\ req = NoRequest /\ pg = NoPaging

Init ==
    /\ books = <<>>
    /\ changes = <<>>
    /\ dc = NoDetect
    /\ req = NoRequest
    /\ resp = NoResponse
    /\ pg = NoPaging
    /\ rl = NoHits
    /\ ft = NoFetches
    /\ crawl_state = <<>>
    /\ cw = NoRun
    /\ sc = NotStarted
    /\ sto = NoCall
    /\ fn = NoEval

(* One ChangeDetector.detect_changes(new_books) call, start to end. *)
(* The model follows detection runs that start on an empty change log: a run that *)
(* logged something is the last one of the behaviour.                             *)
DetectRun(lists) ==
    /\ \E new_books \in lists, read_fails \in BOOLEAN :
      LET db == [books |-> books, changes |-> changes]
      IN  \E deleted_order \in Perms(DeletedBookIds(db, new_books, read_fails)) :
            LET clean == detect_changes(db, new_books, read_fails, 0, deleted_order)
            IN  \E fail_at \in 0..clean.writes :
                  LET st == detect_changes(db, new_books, read_fails, fail_at, deleted_order)
                  IN  /\ books' = st.db.books
                      /\ changes' = st.db.changes
                      /\ dc' = [status |-> IF st.raised THEN "raised" ELSE "returned",
                                new_books |-> new_books,
                                old_books |-> books,
                                old_changes |-> changes,
                                read_failed |-> read_fails,
                                changes |-> st.changes,
                                trace |-> st.trace]
                      /\ UNCHANGED <<req, resp, pg, aux>>

DetectChanges ==
    /\ Idle
    /\ changes = <<>>
    /\ DetectRun(CrawlLists)

(* The caller is done with the returned list (or with the exception). *)
DetectDone ==
    /\ dc # NoDetect
    /\ dc' = NoDetect
    /\ UNCHANGED <<books, changes, req, resp, pg, aux>>

(* run_crawler: one crawl-and-save cycle of the crawler runner, which fills the *)
(* books collection before the scheduler's detection runs.                     *)
SaveBooks ==
    /\ Idle
    /\ changes = <<>>
    /\ \E crawled \in CrawlLists :
          books' = save_books_to_db([books |-> books, changes |-> changes], crawled, 1).books
    /\ UNCHANGED <<changes, dc, req, resp, pg, aux>>

Next == SaveBooks \/ DetectChanges \/ DetectDone

Spec == Init /\ [][Next]_vars

-----------------------------------------------------------------------------
(* Actions of the API.  The collections are as crawls and detection runs left *)
(* them: books saved by the crawler, changes logged by earlier runs.          *)

(* one db.log_change(change) of an earlier detection run *)
LogChange ==
    /\ Idle
    /\ Len(changes) < MaxLogged
    /\ \E book_id \in {"a-light-in-the-attic_1000"} :
          changes' = log_change([books |-> books, changes |-> changes],
                                ChangeLog(book_id, NameOf(book_id), "deleted", <<>>, None, None),
                                FALSE).db.changes
    /\ UNCHANGED <<books, dc, req, resp, pg, aux>>

(* values of the X-API-Key header: absent, empty, a wrong key, the configured key *)
ApiKeyHeaders == {<<>>, <<"">>, <<"invalid_key">>, <<settings_api_key>>}

NoFilter == [category |-> <<>>, min_price |-> <<>>, max_price |-> <<>>, rating |-> <<>>]

NoPage == [sort_by |-> <<>>, page |-> <<>>, page_size |-> <<>>]

Pagings == {[page |-> <<p>>, page_size |-> <<z>>] : p \in {0, 1, 2}, z \in {0, 1, 2, 100, 101}}

BooksQueries ==
    {NoFilter @@ [sort_by |-> <<s>>, page |-> pz.page, page_size |-> pz.page_size] :
        s \in {"name", "price", "rating", "reviews", "title"}, pz \in Pagings}
    \cup
    {[category |-> c, min_price |-> w[1], max_price |-> w[2], rating |-> r] @@ NoPage :
        c \in {<<>>, <<"fic">>, <<"POE">>},
        w \in {<< <<>>, <<>> >>, << <<2500>>, <<>> >>, << <<>>, <<2500>> >>},
        r \in {<<>>, <<3>>}}

ChangesQueries == Pagings \cup {[page |-> <<>>, page_size |-> <<>>]}

Serve(request, out) ==
    /\ req' = request
    /\ resp' = out
    /\ UNCHANGED <<books, changes, dc, pg, aux>>

GetRoot ==
    /\ Idle
    /\ \E x_api_key \in ApiKeyHeaders, over_limit \in BOOLEAN :
           Serve([path |-> "/", x_api_key |-> x_api_key, over_limit |-> over_limit],
                 Public(over_limit, root))

GetHealth ==
    /\ Idle
    /\ \E x_api_key \in ApiKeyHeaders, over_limit \in BOOLEAN, fails \in BOOLEAN :
           Serve([path |-> "/health", x_api_key |-> x_api_key, over_limit |-> over_limit,
                  fails |-> fails],
                 Public(over_limit, health_check(fails)))

GetBooks ==
    /\ Idle
    /\ \E x_api_key \in ApiKeyHeaders, query \in BooksQueries,
          over_limit \in BOOLEAN, fails \in BOOLEAN :
           LET db == [books |-> books, changes |-> changes]
               ids == MatchingIds(db, query.category, query.min_price, query.max_price,
                                  query.rating)
           IN  \E order \in SortedOrders(db, ids, Param(query, "sort_by", "name")) :
                   Serve([path |-> "/books", x_api_key |-> x_api_key, query |-> query,
                          over_limit |-> over_limit, fails |-> fails],
                         Protected(x_api_key, over_limit, get_books(db, query, order, fails)))

GetBookById ==
    /\ Idle
    /\ \E x_api_key \in ApiKeyHeaders, book_id \in BookIds \cup {"the-requiem-red_995"},
          over_limit \in BOOLEAN, fails \in BOOLEAN :
           Serve([path |-> "/books/{book_id}", x_api_key |-> x_api_key, book_id |-> book_id,
                  over_limit |-> over_limit, fails |-> fails],
                 Protected(x_api_key, over_limit,
                           get_book_by_id_endpoint([books |-> books, changes |-> changes],
                                                   book_id, fails)))

GetChanges ==
    /\ Idle
    /\ \E x_api_key \in ApiKeyHeaders, query \in ChangesQueries,
          over_limit \in BOOLEAN, fails \in BOOLEAN :
           Serve([path |-> "/changes", x_api_key |-> x_api_key, query |-> query,
                  over_limit |-> over_limit, fails |-> fails],
                 Protected(x_api_key, over_limit,
                           get_changes([books |-> books, changes |-> changes], query, fails)))

(* a path no route matches: the router raises HTTPException(404) *)
Unmatched ==
    /\ Idle
    /\ \E x_api_key \in ApiKeyHeaders :
           Serve([path |-> "/nonexistent", x_api_key |-> x_api_key],
                 Served(HandleHTTPException(HTTPException(404, <<"Not Found">>))))

(* the response has gone out *)
ResponseSent ==
    /\ req # NoRequest
    /\ req' = NoRequest
    /\ resp' = NoResponse
    /\ UNCHANGED <<books, changes, dc, pg, aux>>

NextApi ==
    \/ SaveBooks \/ LogChange
    \/ GetRoot \/ GetHealth \/ GetBooks \/ GetBookById \/ GetChanges \/ Unmatched
    \/ ResponseSent

SpecApi == Init /\ [][NextApi]_vars

-----------------------------------------------------------------------------
(* The API under its rate limiter.  rl.hits is the limiter's storage: the count *)
(* of each counter key <<identity, route>> that has a window open.  rl.served   *)
(* counts, per <<X-API-Key header, client address, route>>, the requests that   *)
(* were let through to the route in the open window of their counter, and       *)
(* rl.last is the last request with rl.served as it was before it.              *)

ClientIps == {"10.0.0.1"}

RateHeaders == {<<>>, <<"">>, <<settings_api_key>>}

RatePaths == {"/health", "/books"}

(* routes without @limiter.limit: the middleware applies the default limit *)
UndecoratedRoutes == {"/", "/health"}

(* the counter a request is counted on: the identity and the route, which is  *)
(* the URL path in the middleware and the endpoint function in the decorator  *)
CounterKey(x_api_key, ip, path) == <<get_rate_limit_key(x_api_key, ip), path>>

RateRequest ==
    \E path \in RatePaths, x_api_key \in RateHeaders, ip \in ClientIps :
        LET db == [books |-> books, changes |-> changes]
            counted == path \in UndecoratedRoutes \/ verify_api_key(x_api_key) = None
            h == hit(rl.hits, CounterKey(x_api_key, ip, path))
            over_limit == counted /\ ~h.ok
            who == <<x_api_key, ip, path>>
            through == IF who \in DOMAIN rl.served THEN rl.served[who] ELSE 0
        IN  \E order \in SortedOrders(db, DOMAIN books, "name") :
              LET served == IF path = "/health" THEN health_check(FALSE)
                            ELSE get_books(db, NoFilter @@ NoPage, order, FALSE)
                  out == IF path \in UndecoratedRoutes
                         THEN Public(over_limit, served)
                         ELSE Protected(x_api_key, over_limit, served)
              IN  /\ rl' = [hits |-> IF counted THEN h.hits ELSE rl.hits,
                            served |-> IF counted /\ ~over_limit
                                       THEN [w \in DOMAIN rl.served \cup {who} |->
                                                IF w = who THEN through + 1 ELSE rl.served[w]]
                                       ELSE rl.served,
                            last |-> [path |-> path, x_api_key |-> x_api_key, ip |-> ip,
                                      before |-> rl.served,
                                      response |-> out.response, db_calls |-> out.db_calls]]
                  /\ UNCHANGED <<core, ft, crawl_state, cw, sc, sto, fn>>

(* the hour of a counter's window has passed: the storage drops the counter *)
RateWindowExpires ==
    /\ \E key \in DOMAIN rl.hits :
          rl' = [rl EXCEPT
                   !.hits = [k \in DOMAIN rl.hits \ {key} |-> rl.hits[k]],
                   !.served = [w \in {v \in DOMAIN rl.served :
                                         CounterKey(v[1], v[2], v[3]) # key} |->
                                  rl.served[w]]]
    /\ UNCHANGED <<core, ft, crawl_state, cw, sc, sto, fn>>

NextRate == RateRequest \/ RateWindowExpires

SpecRate == Init /\ [][NextRate]_vars

-----------------------------------------------------------------------------
(* Calls of the functions that touch no store, each on inputs from a small set *)

NotEval == <<core, rl, ft, crawl_state, cw, sc, sto>>

RatingTexts == {<<>>, <<"One">>, <<"Three">>, <<"Five">>, <<"Six">>}

RatingNumbers == {<<>>} \cup {<<n>> : n \in {-1, 0, 1, 3, 5, 6}}

StarRatingClasses ==
    {<<>>, <<"star-rating">>, <<"star-rating", "One">>, <<"star-rating", "Three">>,
     <<"Five", "star-rating">>, <<"star-rating", "Two", "Four">>}

(* a Book built directly from given field values *)
ConstructBook ==
    /\ fn = NoEval
    /\ \E name \in {"", "A Light in the Attic"}, rating \in RatingTexts,
          rating_numeric \in RatingNumbers, num_reviews \in {-1, 0} :
          fn' = [op |-> "Book", name |-> name, rating |-> rating,
                 rating_numeric |-> rating_numeric,
                 accepted |-> BookAccepts(name, rating, rating_numeric, num_reviews)]
    /\ UNCHANGED NotEval

(* parse_book_page, as far as the rating goes: the Book built from what the *)
(* page shows                                                               *)
ParseBookPage ==
    /\ fn = NoEval
    /\ \E classes \in StarRatingClasses :
          LET parsed == parse_rating(classes)
          IN  fn' = [op |-> "parse_book_page", name |-> "A Light in the Attic",
                     rating |-> parsed.rating, rating_numeric |-> parsed.rating_numeric,
                     accepted |-> BookAccepts("A Light in the Attic", parsed.rating,
                                              parsed.rating_numeric, 0)]
    /\ UNCHANGED NotEval

(* The field maps compute_content_hash is called on.  A key is left out (<<>>), *)
(* or present with the value None (<< <<>> >>) or with a value (<< <<v>> >>).    *)
HashChoices ==
    [name : {<< <<"A Light in the Attic">> >>, << <<"Soumission">> >>},
     price : {<< <<2599>> >>, << <<3099>> >>},
     availability : {<< <<"In stock">> >>},
     availability_count : {<<>>, << <<>> >>, << <<22>> >>},
     description : {<<>>, << <<"It's hard to imagine">> >>},
     rating : {<<>>, << <<>> >>, << <<"Three">> >>},
     category : {<<>>, << <<"Fiction">> >>, << <<"Poetry">> >>}]

FieldMap(choice) ==
    [key \in {k \in DOMAIN choice : choice[k] # <<>>} |-> choice[key][1]]

(* compute_content_hash on two field maps, and once more on the first *)
ComputeContentHash ==
    /\ fn = NoEval
    /\ \E c1 \in HashChoices, c2 \in HashChoices :
          LET book_data1 == FieldMap(c1)
              book_data2 == FieldMap(c2)
          IN  fn' = [op |-> "compute_content_hash",
                     book_data1 |-> book_data1, book_data2 |-> book_data2,
                     hash1 |-> compute_content_hash(book_data1),
                     hash2 |-> compute_content_hash(book_data2),
                     hash1_again |-> compute_content_hash(book_data1)]
    /\ UNCHANGED NotEval

(* the links a catalogue page may carry in its book anchors *)
Hrefs ==
    {<<"..", "..", "..", "cat", "book_1", "index.html">>,
     <<"..", "..", "cat", "book_1", "index.html">>,
     <<"catalogue", "book_1", "index.html">>,
     <<"book_1", "index.html">>,
     <<"..", "..", "..", "book_1", "index.html">>,
     <<"..", "catalogue", "book_1", "index.html">>}

(* one catalogue page of get_all_book_urls: the URL of each of its anchors, in *)
(* page order                                                                  *)
GetAllBookUrls ==
    /\ fn = NoEval
    /\ \E hrefs \in [1..3 -> Hrefs] :
          fn' = [op |-> "get_all_book_urls", hrefs |-> hrefs,
                 book_urls |-> [i \in 1..3 |-> full_url(hrefs[i])]]
    /\ UNCHANGED NotEval

(* the stored record and the crawled Book of one compare_books call: the page *)
(* as first seen, with any of name, category, the two prices, the count of    *)
(* copies, the rating and its number changed                                  *)
ComparedBooks ==
    LET seen == Book("a-light-in-the-attic_1000", "Fiction", 2599, "GBP")
    IN  {[seen EXCEPT !.name = name, !.category = category,
                      !.price.including_tax = including_tax,
                      !.price.excluding_tax = excluding_tax,
                      !.availability_count = availability_count,
                      !.rating = rating, !.rating_numeric = rating_numeric] :
            name \in {seen.name, "A Light in the Attic (2nd ed.)"},
            category \in {"Fiction", "Poetry"},
            including_tax \in {2599, 2299}, excluding_tax \in {2599, 2166},
            availability_count \in {22, 0},
            rating \in {"Three", "Five"}, rating_numeric \in {3, 5}}

CompareBooks ==
    /\ fn = NoEval
    /\ \E old_book \in ComparedBooks, new_book \in ComparedBooks :
          fn' = [op |-> "compare_books", old_book |-> old_book, new_book |-> new_book,
                 change |-> << compare_books(old_book, new_book) >>]
    /\ UNCHANGED NotEval

(* the caller takes the result *)
EvalReturn ==
    /\ fn # NoEval
    /\ fn' = NoEval
    /\ UNCHANGED NotEval

NextEval ==
    \/ ConstructBook \/ ParseBookPage \/ ComputeContentHash \/ GetAllBookUrls
    \/ CompareBooks \/ EvalReturn

SpecEval == Init /\ [][NextEval]_vars

-----------------------------------------------------------------------------
(* Catalogue enumeration: one get_all_book_urls call, page by page.  A site   *)
(* is the listing pages it serves: for each, how fetch_page ends ("html",     *)
(* "none": no text, "raises": an error after its retries) and the hrefs of    *)
(* the book anchors of the page.  Past its last listed page a site answers    *)
(* 404 (beyond = "missing") or serves its last page again without end         *)
(* (beyond = "repeat").                                                       *)

MaxPages == 2

ListingPages ==
    {[fetch |-> "none", hrefs |-> <<>>],
     [fetch |-> "raises", hrefs |-> <<>>],
     [fetch |-> "html", hrefs |-> <<>>],
     [fetch |-> "html", hrefs |-> << <<"catalogue", "book_1", "index.html">> >>],
     [fetch |-> "html", hrefs |-> << <<"book_2", "index.html">>,
                                    <<"..", "..", "book_3", "index.html">> >>]}

Sites ==
    [pages : UNION {[1..n -> ListingPages] : n \in 1..MaxPages},
     beyond : {"missing", "repeat"}]

(* what the site answers to the request of listing page number page *)
PageAt(site, page) ==
    IF page <= Len(site.pages) THEN site.pages[page]
    ELSE IF site.beyond = "repeat" THEN site.pages[Len(site.pages)]
    ELSE [fetch |-> "raises", hrefs |-> <<>>]

(* the URL requested for a page number *)
listing_url(page) ==
    IF page = 1 THEN <<"base_url", "index.html">>
    ELSE <<"base_url", "catalogue", <<"page", page>> >>

enumerate_page_on(call) ==
    LET listing == PageAt(call.site, call.page)
        asked == [call EXCEPT !.requested = Append(@, listing_url(call.page))]
    IN  IF listing.fetch # "html"
        THEN [asked EXCEPT !.status = "returned"]
        ELSE [asked EXCEPT !.book_urls = @ \o [i \in DOMAIN listing.hrefs |->
                                                   full_url(listing.hrefs[i])],
                           !.page = @ + 1]

(* one turn of "while True": the page is fetched; no text, an exception or *)
(* no book anchors end the loop, else the URLs are appended and page += 1  *)
enumerate_page(call) ==
    LET listing == PageAt(call.site, call.page)
        asked == [call EXCEPT !.requested = Append(@, listing_url(call.page))]
    IN  IF listing.fetch # "html" \/ listing.hrefs = <<>>
        THEN [asked EXCEPT !.status = "returned"]
        ELSE [asked EXCEPT !.book_urls = @ \o [i \in DOMAIN listing.hrefs |->
                                                   full_url(listing.hrefs[i])],
                           !.page = @ + 1]

EnumerateCall ==
    /\ fn = NoEval
    /\ \E site \in Sites :
          fn' = [op |-> "enumerate", site |-> site, page |-> 1, book_urls |-> <<>>,
                 requested |-> <<>>, status |-> "running"]
    /\ UNCHANGED NotEval

(* the model follows a call up to page MaxPages + 2 *)
EnumeratePage ==
    /\ fn.op = "enumerate"
    /\ fn.status = "running"
    /\ fn.page <= MaxPages + 1
    /\ fn' = enumerate_page(fn)
    /\ UNCHANGED NotEval

(* the caller takes the list *)
EnumerateReturn ==
    /\ fn.op = "enumerate"
    /\ fn.status = "returned"
    /\ fn' = NoEval
    /\ UNCHANGED NotEval

NextEnum == EnumerateCall \/ EnumeratePage \/ EnumerateReturn

SpecEnum == Init /\ [][NextEnum]_vars

(* the event loop runs the call on: each await of the loop returns *)
SpecEnumFair == Init /\ [][NextEnum]_vars /\ WF_vars(EnumeratePage)

-----------------------------------------------------------------------------
(* save_books_to_db on lists of parsed books, one call after another on the *)
(* same store                                                               *)

(* the pages a crawl may have parsed: two addresses end in the same directory *)
BookPageUrls ==
    {<<"catalogue", "a-light-in-the-attic_1000", "index.html">>,
     <<"cat", "a-light-in-the-attic_1000", "index.html">>,
     <<"catalogue", "tipping-the-velvet_999", "index.html">>}

(* parse_book_page(html, url): book_id = url.split('/')[-2], source_url = url *)
ParsedBook(url, version) ==
    [Book(url[Len(url) - 1], version[1], version[2], version[3])
        EXCEPT !.metadata.source_url = url]

SourceUrls(crawled) == {crawled[i].metadata.source_url : i \in DOMAIN crawled}

(* lists of parsed books with pairwise distinct source URLs *)
SaveLists ==
    {crawled \in UNION {[1..n -> {ParsedBook(url, v) : url \in BookPageUrls,
                                     v \in {<<"Fiction", 2599, "GBP">>, <<"Fiction", 2299, "GBP">>}}]
                            : n \in 1..MaxCrawl} :
        Cardinality(SourceUrls(crawled)) = Len(crawled)}

SaveBooksToDb ==
    /\ \E crawled \in SaveLists :
          /\ books' = save_books_to_db([books |-> books, changes |-> changes], crawled, 1).books
          /\ fn' = [op |-> "save_books_to_db", crawled |-> crawled]
    /\ UNCHANGED <<changes, dc, req, resp, pg, rl, ft, crawl_state, cw, sc, sto>>

NextUpsert == SaveBooksToDb

SpecUpsert == Init /\ [][NextUpsert]_vars

-----------------------------------------------------------------------------
(* Scheduler cycles one after another on the same store: crawl results saved *)
(* by the crawler runner, detection runs on the change log earlier runs left, *)
(* and GET /changes reading it.                                               *)

(* what a crawl of these cycles brings back: no book or one *)
CycleLists == {crawled \in CrawlLists : Len(crawled) <= 1}

(* a detect_changes call of a later cycle *)
DetectCycle ==
    /\ Idle
    /\ Len(changes) < MaxCycleLog
    /\ DetectRun(CycleLists)

(* run_crawler's save_books_to_db, with both collections as it leaves them *)
CrawlSave ==
    /\ Idle
    /\ \E crawled \in CycleLists :
          LET db == save_books_to_db([books |-> books, changes |-> changes], crawled, 1)
          IN  /\ books' = db.books
              /\ changes' = db.changes
    /\ UNCHANGED <<dc, req, resp, pg, aux>>

(* GET /changes with the configured key and the default page *)
ReadChanges ==
    /\ Idle
    /\ \E fails \in BOOLEAN :
           Serve([path |-> "/changes", x_api_key |-> <<settings_api_key>>,
                  query |-> [page |-> <<>>, page_size |-> <<>>],
                  over_limit |-> FALSE, fails |-> fails],
                 Protected(<<settings_api_key>>, FALSE,
                           get_changes([books |-> books, changes |-> changes],
                                       [page |-> <<>>, page_size |-> <<>>], fails)))

NextCycles == CrawlSave \/ DetectCycle \/ DetectDone \/ ReadChanges \/ ResponseSent

SpecCycles == Init /\ [][NextCycles]_vars

-----------------------------------------------------------------------------
(* detect_changes called on Books whose price may carry another currency *)
(* than the one parse_book_page sets (BookPrice takes any currency text) *)

GateLists ==
    UNION {[1..n -> {Book(id, v[1], v[2], v[3]) :
                        id \in BookIds, v \in PageVersions \cup {<<"Fiction", 2599, "EUR">>}}]
              : n \in 0..1}

SaveGate ==
    /\ Idle
    /\ changes = <<>>
    /\ \E crawled \in GateLists :
          books' = save_books_to_db([books |-> books, changes |-> changes], crawled, 1).books
    /\ UNCHANGED <<changes, dc, req, resp, pg, aux>>

DetectGate ==
    /\ Idle
    /\ Len(changes) < MaxCycleLog
    /\ DetectRun(GateLists)

NextHashGate == SaveGate \/ DetectGate \/ DetectDone

SpecHashGate == Init /\ [][NextHashGate]_vars

-----------------------------------------------------------------------------
(* The crawl and the detection of one scheduler cycle                        *)
(* (scheduled_crawl_and_detect, steps 1 and 2), on a store earlier crawls    *)
(* filled.  The site lists some of the books; enumeration reaches the first  *)
(* books of that listing (all of them unless it stopped early), and every    *)
(* URL it found goes through crawl_book.                                     *)

SiteListings == {<<>>, <<"a-light-in-the-attic_1000">>, <<"tipping-the-velvet_999">>,
                 <<"a-light-in-the-attic_1000", "tipping-the-velvet_999">>}

(* crawl_all_books(resume=False): the Books of the URLs that gave one, in *)
(* URL order                                                              *)
RECURSIVE crawled_books(_, _, _)
crawled_books(book_urls, outcomes, i) ==
    IF i > Len(book_urls) THEN <<>>
    ELSE LET r == crawl_book([successful |-> 0, failed |-> 0], book_urls[i], outcomes[i])
         IN  (IF r.book = None THEN <<>> ELSE <<r.book>>)
             \o crawled_books(book_urls, outcomes, i + 1)

CycleCrawl ==
    /\ Idle
    /\ fn = NoEval
    /\ Len(changes) < MaxCycleLog
    /\ \E listing \in SiteListings :
         \E reached \in 0..Len(listing) :
          LET book_urls == SubSeq(listing, 1, reached)
          IN  \E outcomes \in [1..reached -> CrawlOutcomes] :
                fn' = [op |-> "crawl_all_books", listing |-> listing, book_urls |-> book_urls,
                       outcomes |-> outcomes, books |-> crawled_books(book_urls, outcomes, 1),
                       detected |-> FALSE]
    /\ UNCHANGED NotEval

(* detect_changes(new_books) on the list the crawl returned *)
CycleDetect ==
    /\ Idle
    /\ fn.op = "crawl_all_books"
    /\ ~fn.detected
    /\ \E new_books \in {fn.books}, read_fails \in BOOLEAN :
          LET db == [books |-> books, changes |-> changes]
          IN  \E deleted_order \in Perms(DeletedBookIds(db, new_books, read_fails)) :
                LET st == detect_changes(db, new_books, read_fails, 0, deleted_order)
                IN  /\ books' = st.db.books
                    /\ changes' = st.db.changes
                    /\ dc' = [status |-> "returned", new_books |-> new_books,
                              old_books |-> books, old_changes |-> changes,
                              read_failed |-> read_fails, changes |-> st.changes,
                              trace |-> st.trace]
                    /\ fn' = [fn EXCEPT !.detected = TRUE]
    /\ UNCHANGED <<req, resp, pg, rl, ft, crawl_state, cw, sc, sto>>

(* the cycle has ended *)
CycleEnd ==
    /\ Idle
    /\ fn.op = "crawl_all_books"
    /\ fn.detected
    /\ fn' = NoEval
    /\ UNCHANGED NotEval

NextCrawlDetect == CrawlSave \/ CycleCrawl \/ CycleDetect \/ DetectDone \/ CycleEnd

SpecCrawlDetect == Init /\ [][NextCrawlDetect]_vars

-----------------------------------------------------------------------------
(* The storage operations called one at a time, each with or without a     *)
(* backend error (utils/database.py).  sto.last is the last call: whether it *)
(* raised, whether what it returned was empty or absent, and whether the    *)
(* store held what was asked for.                                           *)

NotStore == <<dc, req, resp, pg, rl, ft, cw, sc, fn>>

(* the read operations, with what they return *)
ReadCalls(db, collection, fails) ==
    {Called("get_book_by_id", fails, FALSE, get_book_by_id(db, id, fails) = None,
            id \in DOMAIN db.books) : id \in BookIds}
    \cup {Called("get_book_by_url", fails, FALSE,
                 get_book_by_url(db, <<"catalogue", id, "index.html">>, fails) = None,
                 id \in DOMAIN db.books) : id \in BookIds}
    \cup {Called("query_books", fails, FALSE,
                 query_books(db, <<>>, <<>>, <<>>, <<>>, "name", 0, MaxLimit, order, fails)
                     = [books |-> <<>>, total |-> 0],
                 DOMAIN db.books # {}) : order \in SortedOrders(db, DOMAIN db.books, "name")}
    \cup {Called("get_all_books", fails, FALSE, get_all_books(db, fails) = {},
                 DOMAIN db.books # {})}
    \cup {Called("get_recent_changes", fails, FALSE,
                 get_recent_changes(db, MaxLimit, 0, fails) = [changes |-> <<>>, total |-> 0],
                 db.changes # <<>>)}
    \cup {Called("get_crawl_state", fails, FALSE, get_crawl_state(collection, fails) = None,
                 collection # <<>>)}

StoreRead ==
    /\ \E fails \in BOOLEAN :
          \E call \in ReadCalls([books |-> books, changes |-> changes], crawl_state, fails) :
              sto' = [sto EXCEPT !.last = call, !.read_failed = @ \/ fails]
    /\ UNCHANGED <<books, changes, crawl_state, NotStore>>

InsertBook ==
    /\ \E fails \in BOOLEAN, book \in CrawledBooks :
          LET r == insert_book([books |-> books, changes |-> changes], book, fails)
          IN  /\ books' = r.db.books
              /\ sto' = [sto EXCEPT !.last = Called("insert_book", fails, ~r.ok, FALSE,
                                                   book.book_id \in DOMAIN books),
                                  !.write_failed = @ \cup (IF fails THEN {"insert_book"} ELSE {})]
    /\ UNCHANGED <<changes, crawl_state, NotStore>>

UpdateBook ==
    /\ \E fails \in BOOLEAN, book \in CrawledBooks :
          LET r == update_book([books |-> books, changes |-> changes], book.book_id, book, fails)
          IN  /\ books' = r.db.books
              /\ sto' = [sto EXCEPT !.last = Called("update_book", fails, ~r.ok, FALSE,
                                                   book.book_id \in DOMAIN books),
                                  !.write_failed = @ \cup (IF fails THEN {"update_book"} ELSE {})]
    /\ UNCHANGED <<changes, crawl_state, NotStore>>

StoreLogChange ==
    /\ Len(changes) < MaxLogged
    /\ \E fails \in BOOLEAN, book_id \in {"a-light-in-the-attic_1000"} :
          LET r == log_change([books |-> books, changes |-> changes],
                              ChangeLog(book_id, NameOf(book_id), "deleted", <<>>, None, None),
                              fails)
          IN  /\ changes' = r.db.changes
              /\ sto' = [sto EXCEPT !.last = Called("log_change", fails, ~r.ok, FALSE,
                                                   changes # <<>>),
                                  !.write_failed = @ \cup (IF fails THEN {"log_change"} ELSE {})]
    /\ UNCHANGED <<books, crawl_state, NotStore>>

SaveCrawlState ==
    /\ \E fails \in BOOLEAN :
          /\ crawl_state' = save_crawl_state(crawl_state,
                                [last_processed_index |-> crawler_concurrent_requests,
                                 total_books |-> Len(CatalogUrls)], fails)
          /\ sto' = [sto EXCEPT !.last = Called("save_crawl_state", fails, FALSE, FALSE,
                                               crawl_state # <<>>)]
    /\ UNCHANGED <<books, changes, NotStore>>

NextStore == StoreRead \/ InsertBook \/ UpdateBook \/ StoreLogChange \/ SaveCrawlState

SpecStore == Init /\ [][NextStore]_vars

-----------------------------------------------------------------------------
(* Actions of the crawler runner *)

NotCrawl == <<changes, dc, req, resp, pg, rl, ft, sc, sto, fn>>

(* run_crawler(resume) up to the first batch: the checkpoint is read when    *)
(* resuming, the catalogue listed (all of it, or the pages before the one    *)
(* where the enumeration broke off), the processed prefix cut off, and the   *)
(* tasks of the first batch created                                          *)
RunCrawler ==
    /\ cw.status \in {"none", "done", "interrupted"}
    /\ cw.runs < MaxRuns
    /\ \E resume, fails \in BOOLEAN, total_books \in 0..Len(CatalogUrls) :
          LET state == IF resume THEN get_crawl_state(crawl_state, fails) ELSE None
              start_index == IF state # None THEN state.last_processed_index ELSE 0
              book_urls == book_urls_from(SubSeq(CatalogUrls, 1, total_books), state)
              after_interrupt == cw.status = "interrupted" /\ resume
          IN  cw' = [NoRun EXCEPT !.status = IF book_urls = <<>> THEN "saving" ELSE "crawling",
                                  !.runs = cw.runs + 1,
                                  !.resume = resume,
                                  !.start_index = start_index,
                                  !.book_urls = book_urls,
                                  !.total_books = total_books,
                                  !.crawl_state = state,
                                  !.saved = crawl_state,
                                  !.pending = BatchPositions(book_urls, 0),
                                  !.owed = IF after_interrupt THEN cw.owed ELSE {},
                                  !.after_interrupt = after_interrupt]
    /\ UNCHANGED <<books, crawl_state, NotCrawl>>

(* crawl_book(url) of one task of the batch ends: the parsed Book, or None *)
(* after a failed fetch or parse                                           *)
CrawlBook ==
    /\ cw.status = "crawling"
    /\ \E q \in cw.pending, outcome \in CrawlOutcomes :
          LET r == crawl_book(cw.stats, cw.book_urls[q], outcome)
          IN  cw' = [cw EXCEPT !.pending = @ \ {q},
                               !.batch_books = (q :> r.book) @@ @,
                               !.stats = r.stats,
                               !.fetched = @ \cup {cw.start_index + q}]
    /\ UNCHANGED <<books, crawl_state, NotCrawl>>

(* gather has returned: the batch's books are appended, the checkpoint saved, *)
(* and after the sleep the next batch's tasks are created, or the loop ends   *)
BatchDone ==
    /\ cw.status = "crawling"
    /\ cw.pending = {}
    /\ \E fails \in BOOLEAN :
          LET batch == BatchPositions(cw.book_urls, cw.i)
              valid_books == ValidBooks(cw.batch_books, batch)
              state == [last_processed_index |-> cw.start_index + cw.i + Cardinality(batch),
                        total_books |-> cw.total_books]
              next_i == cw.i + crawler_concurrent_requests
              more == next_i < Len(cw.book_urls)
          IN  /\ crawl_state' = save_crawl_state(crawl_state, state, fails)
              /\ cw' = [cw EXCEPT !.books = @ \o valid_books,
                                  !.batch_books = <<>>,
                                  !.i = next_i,
                                  !.pending = IF more THEN BatchPositions(cw.book_urls, next_i) ELSE {},
                                  !.status = IF more THEN "crawling" ELSE "saving",
                                  !.checkpointed =
                                      IF fails THEN @
                                      ELSE @ \cup {valid_books[k].book_id : k \in DOMAIN valid_books}]
    /\ UNCHANGED <<books, NotCrawl>>

(* crawl_all_books has returned: save_books_to_db(books), then disconnect *)
SaveCrawled ==
    /\ cw.status = "saving"
    /\ books' = save_books_to_db([books |-> books, changes |-> changes], cw.books, 1).books
    /\ cw' = [cw EXCEPT !.status = "done"]
    /\ UNCHANGED <<crawl_state, NotCrawl>>

(* Ctrl-C: the run is cancelled where it stands and the process exits; what *)
(* it held in memory is gone                                                *)
Interrupt ==
    /\ cw.status \in {"crawling", "saving"}
    /\ cw' = [NoRun EXCEPT !.status = "interrupted", !.runs = cw.runs,
                           !.owed = cw.owed \cup cw.checkpointed]
    /\ UNCHANGED <<books, crawl_state, NotCrawl>>

NextCrawl == RunCrawler \/ CrawlBook \/ BatchDone \/ SaveCrawled \/ Interrupt

SpecCrawl == Init /\ [][NextCrawl]_vars

-----------------------------------------------------------------------------
(* Actions of the scheduler daemon *)

NotSched == <<core, rl, ft, crawl_state, cw, sto, fn>>

(* BookScheduler.start(): nothing when the scheduler is disabled, else the job *)
(* is added with next_run_time = now + interval and the scheduler started      *)
SchedStart ==
    /\ sc.status = "none"
    /\ \E scheduler_enabled \in BOOLEAN :
          sc' = IF ~scheduler_enabled THEN [sc EXCEPT !.status = "disabled"]
                ELSE [sc EXCEPT !.status = "running", !.started_at = sc.now,
                                !.next_run = <<sc.now + scheduler_interval_hours>>]
    /\ UNCHANGED NotSched

(* an hour passes; a running scheduler first fires the job that is due *)
HourPasses ==
    /\ sc.now < MaxTime
    /\ sc.status # "exited"
    /\ ~(sc.status = "running" /\ sc.next_run = <<sc.now>>)
    /\ sc' = [sc EXCEPT !.now = @ + 1]
    /\ UNCHANGED NotSched

(* the job is due: the interval trigger sets the next run time, and the       *)
(* invocation starts unless the previous one is still running (one instance)  *)
JobDue ==
    /\ sc.status = "running"
    /\ sc.next_run = <<sc.now>>
    /\ sc' = IF CycleRunning(sc.cycle)
             THEN [sc EXCEPT !.next_run = <<sc.now + scheduler_interval_hours>>,
                             !.due = @ \cup {sc.now}]
             ELSE [sc EXCEPT !.next_run = <<sc.now + scheduler_interval_hours>>,
                             !.due = @ \cup {sc.now},
                             !.failed_steps = @ \cup sc.cycle.failed_at,
                             !.started = @ + 1,
                             !.cycle = [NoCycle EXCEPT !.pc = "connect"]]
    /\ UNCHANGED NotSched

(* a step of scheduled_crawl_and_detect inside the try block *)
CycleStep ==
    /\ sc.status \in {"running", "stopped"}
    /\ sc.cycle.pc \in Range(CycleSteps)
    /\ \E fails, changes_found \in BOOLEAN, recipient \in {<<>>, <<"alerts@example.org">>},
          fails_at \in SmtpFailures :
          /\ changes_found \/ sc.cycle.pc = "detect"
          /\ (recipient # <<>> /\ fails_at = "nowhere") \/ (sc.cycle.pc = "alerts" /\ ~fails)
          /\ recipient # <<>> \/ fails_at = "nowhere"
          /\ sc' = [sc EXCEPT !.cycle =
                       [AfterStep(sc.cycle, fails, changes_found) EXCEPT !.alert =
                           IF sc.cycle.pc = "alerts" /\ ~fails
                           THEN <<send_change_alert(TRUE, recipient, fails_at)>> ELSE @]]
    /\ UNCHANGED NotSched

(* "finally: await db.disconnect()", then the return, or the error going on *)
CycleFinally ==
    /\ sc.status \in {"running", "stopped"}
    /\ sc.cycle.pc = "disconnect"
    /\ sc' = [sc EXCEPT !.cycle.disconnected = TRUE,
                        !.cycle.pc = IF sc.cycle.error THEN "raised" ELSE "returned"]
    /\ UNCHANGED NotSched

(* the invocation in progress is cut: its remaining steps do not run *)
Cut(cycle, disconnected) ==
    IF CycleRunning(cycle)
    THEN [cycle EXCEPT !.pc = "cut", !.aborted = TRUE, !.disconnected = disconnected]
    ELSE cycle

(* BookScheduler.stop() called directly: scheduler.shutdown().  The job is no *)
(* longer run; the executor's shutdown cancels the invocation in progress     *)
(* (its finally block then disconnects) or leaves it, by library release      *)
SchedStop ==
    /\ sc.status = "running"
    /\ \E cancels \in BOOLEAN :
          sc' = [sc EXCEPT !.status = "stopped", !.next_run = <<>>,
                           !.started_at_stop = <<sc.started>>,
                           !.cycle = IF cancels THEN Cut(@, TRUE) ELSE @]
    /\ UNCHANGED NotSched

(* SIGINT or SIGTERM: signal_handler calls scheduler.stop() and sys.exit(0).  *)
(* The process ends with the invocation where it stands; its finally block    *)
(* runs when SystemExit is raised inside the invocation's own frame, and not  *)
(* when it is raised in the event loop                                        *)
Signal ==
    /\ sc.status \in {"running", "stopped", "disabled"}
    /\ \E disconnected \in BOOLEAN :
          /\ disconnected \/ CycleRunning(sc.cycle)
          /\ sc' = [sc EXCEPT !.status = "exited", !.next_run = <<>>,
                              !.started_at_stop =
                                  IF sc.status = "running" THEN <<sc.started>> ELSE @,
                              !.cycle = Cut(@, IF CycleRunning(@) THEN disconnected
                                               ELSE @.disconnected)]
    /\ UNCHANGED NotSched

NextSched ==
    SchedStart \/ HourPasses \/ JobDue \/ CycleStep \/ CycleFinally \/ SchedStop \/ Signal

SpecSched == Init /\ [][NextSched]_vars

-----------------------------------------------------------------------------
(* Actions of fetch_page calls in one crawler session, interleaved at their *)
(* awaits                                                                   *)

NotFetch == <<core, rl, crawl_state, cw, sc, sto, fn>>

(* fetch_page(url) is called *)
FetchCall(t) ==
    /\ ft.task[t].pc = "new"
    /\ ft' = [ft EXCEPT !.task[t].pc = "acquire"]
    /\ UNCHANGED NotFetch

(* "async with self.semaphore" is entered; the loop starts with attempt 0 *)
FetchEnter(t) ==
    /\ ft.task[t].pc = "acquire"
    /\ CanAcquire(ft.sem)
    /\ ft' = [ft EXCEPT !.sem = @ - 1, !.task[t].pc = "attempt"]
    /\ UNCHANGED NotFetch

(* "response = await self.client.get(url)": the request goes out *)
FetchRequest(t) ==
    /\ ft.task[t].pc = "attempt"
    /\ ft' = [ft EXCEPT !.task[t].pc = "inflight", !.task[t].attempts = @ + 1]
    /\ UNCHANGED NotFetch

(* the request ends; a return or a raise leaves the "async with" and releases *)
(* the semaphore                                                              *)
FetchResponse(t) ==
    /\ ft.task[t].pc = "inflight"
    /\ \E outcome \in FetchOutcomes :
          LET after == AfterRequest(ft.task[t], outcome)
          IN  ft' = [ft EXCEPT !.task[t] = after,
                               !.sem = IF after.pc = "sleep" THEN @ ELSE @ + 1]
    /\ UNCHANGED NotFetch

(* "await asyncio.sleep(wait_time)" is over; "continue" *)
FetchWake(t) ==
    /\ ft.task[t].pc = "sleep"
    /\ ft' = [ft EXCEPT !.task[t].pc = "attempt", !.task[t].attempt = @ + 1,
                         !.task[t].last = [none |-> TRUE]]
    /\ UNCHANGED NotFetch

NextFetch ==
    \E t \in FetchTasks :
        FetchCall(t) \/ FetchEnter(t) \/ FetchRequest(t) \/ FetchResponse(t) \/ FetchWake(t)

SpecFetch == Init /\ [][NextFetch]_vars

-----------------------------------------------------------------------------
(* A caller of Database.query_books that reads the result page by page, with a *)
(* fixed filter, sort and limit, at skip = 0, limit, 2*limit, ... while the    *)
(* books collection stays as it is.                                            *)

PagingFilters ==
    {NoFilter, [NoFilter EXCEPT !.category = <<"fic">>], [NoFilter EXCEPT !.max_price = <<2500>>]}

PagingMatching ==
    MatchingIds([books |-> books, changes |-> changes],
                pg.filter.category, pg.filter.min_price, pg.filter.max_price, pg.filter.rating)

StartPaging ==
    /\ Idle
    /\ \E filter \in PagingFilters, sort_by \in valid_sort_fields, limit \in 1..MaxLimit :
          pg' = [status |-> "paging", filter |-> filter, sort_by |-> sort_by, limit |-> limit,
                 skip |-> 0, pages |-> <<>>, totals |-> <<>>, failed |-> FALSE]
    /\ UNCHANGED <<books, changes, dc, req, resp, aux>>

(* one query_books call, for the next page *)
NextPage ==
    /\ pg # NoPaging
    /\ pg.pages = <<>> \/ pg.skip < Cardinality(PagingMatching)
    /\ \E order \in SortedOrders([books |-> books, changes |-> changes], PagingMatching,
                                 pg.sort_by),
          fails \in BOOLEAN :
          LET found == query_books([books |-> books, changes |-> changes],
                                   pg.filter.category, pg.filter.min_price,
                                   pg.filter.max_price, pg.filter.rating,
                                   pg.sort_by, pg.skip, pg.limit, order, fails)
          IN  pg' = [pg EXCEPT !.pages = Append(@, found.books),
                               !.totals = Append(@, found.total),
                               !.skip = @ + pg.limit,
                               !.failed = @ \/ fails]
    /\ UNCHANGED <<books, changes, dc, req, resp, aux>>

(* the caller has read all pages *)
PagingDone ==
    /\ pg # NoPaging
    /\ pg.pages # <<>>
    /\ pg.skip >= Cardinality(PagingMatching)
    /\ pg' = NoPaging
    /\ UNCHANGED <<books, changes, dc, req, resp, aux>>

NextPaging == SaveBooks \/ StartPaging \/ NextPage \/ PagingDone

SpecPaging == Init /\ [][NextPaging]_vars

-----------------------------------------------------------------------------
(* Properties of detect_changes.  They are stated of the state in which a   *)
(* detect_changes call has just returned its list (dc.status = "returned"): *)
(* dc.old_books and dc.old_changes are the collections as the call found    *)
(* them, dc.changes the list it returned, dc.trace[i] what the loop did for *)
(* new_books[i].                                                            *)

Returned == dc.status = "returned"

WithoutId(doc) == [f \in DOMAIN doc \ {"_id"} |-> doc[f]]

StoredBefore(book_id) == book_id \in DOMAIN dc.old_books

OccursOnce(book_id) ==
    Cardinality({i \in DOMAIN dc.new_books : dc.new_books[i].book_id = book_id}) = 1

DiffFields(old_book, new_book) ==
    {f \in Range(fields_to_compare) : FieldValue(old_book, f) # FieldValue(new_book, f)}

(* the k-th ChangeLog of the returned list is the k-th document this call logged *)
Persisted(k) ==
    /\ Len(changes) >= Len(dc.old_changes) + k
    /\ WithoutId(changes[Len(dc.old_changes) + k]) = dc.changes[k]

EmittedOne(i) == dc.trace[i].last = dc.trace[i].first

(* C1: when detect_changes returns, every crawled book whose book_id was not in   *)
(* storage has exactly one ChangeLog, of type "new" with empty changed_fields and *)
(* no old/new values, in the returned list and in the changes collection, and the *)
(* book is retrievable by its book_id.                                            *)
C1_NewBookLoggedAndStored ==
    Returned =>
      \A i \in DOMAIN dc.new_books :
        LET b == dc.new_books[i]
            k == dc.trace[i].first
        IN  ~StoredBefore(b.book_id) =>
              /\ EmittedOne(i)
              /\ dc.changes[k].book_id = b.book_id
              /\ dc.changes[k].book_name = b.name
              /\ dc.changes[k].change_type = "new"
              /\ dc.changes[k].changed_fields = <<>>
              /\ dc.changes[k].old_values = None
              /\ dc.changes[k].new_values = None
              /\ {j \in DOMAIN dc.changes : dc.changes[j].book_id = b.book_id} = {k}
              /\ Persisted(k)
              /\ get_book_by_id([books |-> books, changes |-> changes], b.book_id, FALSE) # None

C1_Witness ==
    /\ Returned
    /\ \E i \in DOMAIN dc.new_books : ~StoredBefore(dc.new_books[i].book_id)

UpdatedCase(i) ==
    LET b == dc.new_books[i]
    IN  /\ StoredBefore(b.book_id)
        /\ dc.old_books[b.book_id].metadata.content_hash # b.metadata.content_hash
        /\ DiffFields(dc.old_books[b.book_id], b) # {}

UpdatedLoggedAndStored(i) ==
    LET b == dc.new_books[i]
        old == dc.old_books[b.book_id]
        k == dc.trace[i].first
        diff == DiffFields(old, b)
    IN  /\ EmittedOne(i)
        /\ dc.changes[k].book_id = b.book_id
        /\ dc.changes[k].change_type = "updated"
        /\ Range(dc.changes[k].changed_fields) = diff
        /\ DOMAIN dc.changes[k].old_values = diff
        /\ DOMAIN dc.changes[k].new_values = diff
        /\ \A f \in diff : /\ dc.changes[k].old_values[f] = FieldValue(old, f)
                            /\ dc.changes[k].new_values[f] = FieldValue(b, f)
        /\ Persisted(k)
        /\ WithoutId(books[b.book_id]) = b
        /\ books[b.book_id]._id = old._id

(* C2 as claimed: when detect_changes returns, every crawled book that is stored   *)
(* with another content_hash and differs in a compared field has exactly one       *)
(* "updated" ChangeLog with the differing fields and their stored and crawled      *)
(* values, and the stored record holds the crawled values.                         *)
C2_Original ==
    Returned => \A i \in DOMAIN dc.new_books : UpdatedCase(i) => UpdatedLoggedAndStored(i)

(* C2 as amended: the same, for a crawled book whose book_id occurs once in the *)
(* crawled list.                                                                *)
C2_UpdatedLoggedAndStored ==
    Returned =>
      \A i \in DOMAIN dc.new_books :
        (UpdatedCase(i) /\ OccursOnce(dc.new_books[i].book_id)) => UpdatedLoggedAndStored(i)

C2_Witness ==
    /\ Returned
    /\ \E i \in DOMAIN dc.new_books : UpdatedCase(i) /\ OccursOnce(dc.new_books[i].book_id)

(* C3 as claimed: when detect_changes returns, every stored book_id that is absent *)
(* from the crawled list has exactly one "deleted" ChangeLog with empty            *)
(* changed_fields and the stored name, and its stored record is unchanged.         *)
C3_Original ==
    Returned =>
      \A id \in DOMAIN dc.old_books \ {dc.new_books[i].book_id : i \in DOMAIN dc.new_books} :
        LET logged == {k \in DOMAIN dc.changes : dc.changes[k].book_id = id}
        IN  /\ Cardinality(logged) = 1
            /\ \A k \in logged : /\ dc.changes[k].change_type = "deleted"
                                  /\ dc.changes[k].changed_fields = <<>>
                                  /\ dc.changes[k].book_name = dc.old_books[id].name
                                  /\ Persisted(k)
            /\ id \in DOMAIN books
            /\ books[id] = dc.old_books[id]

UnchangedCase(i) ==
    LET b == dc.new_books[i]
    IN  /\ StoredBefore(b.book_id)
        /\ dc.old_books[b.book_id].metadata.content_hash = b.metadata.content_hash

(* C4: when detect_changes returns, a crawled book that is stored with the same  *)
(* content_hash has produced no ChangeLog, no write and no field comparison; if  *)
(* its book_id occurs once in the crawled list, no ChangeLog of the call carries *)
(* that book_id and the stored record is as it was.                              *)
C4_UnchangedBookSkipped ==
    Returned =>
      \A i \in DOMAIN dc.new_books :
        LET b == dc.new_books[i]
        IN  UnchangedCase(i) =>
              /\ dc.trace[i].last < dc.trace[i].first
              /\ dc.trace[i].writes = 0
              /\ dc.trace[i].compared = 0
              /\ OccursOnce(b.book_id) =>
                    /\ \A k \in DOMAIN dc.changes : dc.changes[k].book_id # b.book_id
                    /\ \A k \in (Len(dc.old_changes) + 1)..Len(changes) :
                          changes[k].book_id # b.book_id
                    /\ books[b.book_id] = dc.old_books[b.book_id]

C4_Witness ==
    /\ Returned
    /\ \E i \in DOMAIN dc.new_books :
          /\ UnchangedCase(i)
          /\ DiffFields(dc.old_books[dc.new_books[i].book_id], dc.new_books[i]) # {}

-----------------------------------------------------------------------------
(* Properties of the API.  They are stated of the state in which a request *)
(* has been answered: req is the request with the conditions it met        *)
(* (over_limit: the rate limiter refused it; fails: the backend failed),   *)
(* resp the response and the storage calls made for it.                    *)

Status == resp.response.status_code

Content == resp.response.content

ProtectedPaths == {"/books", "/books/{book_id}", "/changes"}

PublicPaths == {"/", "/health"}

HasKey == req.x_api_key = <<settings_api_key>>

Admitted == HasKey /\ ~req.over_limit

MissingKeyDetail == <<"API key is missing. Add header: X-API-Key">>

(* C5 as claimed: on every endpoint other than / and /health, a request without *)
(* X-API-Key header gets 401 "API key is missing...", a request whose header    *)
(* differs from the configured key gets 403 "Invalid API key", a request with   *)
(* the configured key gets neither; / and /health never answer 401 or 403.      *)
C5_Original ==
    /\ (req.path \in ProtectedPaths /\ req.x_api_key = <<>>) =>
           (Status = 401 /\ Content.detail = MissingKeyDetail)
    /\ (req.path \in ProtectedPaths /\ req.x_api_key # <<>> /\ ~HasKey) =>
           (Status = 403 /\ Content.detail = <<"Invalid API key">>)
    /\ (req.path \in ProtectedPaths /\ HasKey) => Status \notin {401, 403}
    /\ req.path \in PublicPaths => Status \notin {401, 403}

(* C5 as amended: on every endpoint other than / and /health, a request without *)
(* X-API-Key header or with an empty one gets 401 "API key is missing...", a    *)
(* request whose non-empty header differs from the configured key gets 403      *)
(* "Invalid API key", a request with the configured key gets neither; / and     *)
(* /health never answer 401 or 403.                                             *)
C5_Authentication ==
    /\ (req.path \in ProtectedPaths /\ req.x_api_key \in {<<>>, <<"">>}) =>
           (Status = 401 /\ Content.detail = MissingKeyDetail)
    /\ (req.path \in ProtectedPaths /\ req.x_api_key \notin {<<>>, <<"">>} /\ ~HasKey) =>
           (Status = 403 /\ Content.detail = <<"Invalid API key">>)
    /\ (req.path \in ProtectedPaths /\ HasKey) => Status \notin {401, 403}
    /\ req.path \in PublicPaths => Status \notin {401, 403}

(* an empty X-API-Key header has been answered on a protected endpoint *)
C5_Witness ==
    /\ req.path = "/changes"
    /\ req.x_api_key = <<"">>
    /\ Status = 401

IsStrId(doc) == "_id" \in DOMAIN doc /\ DOMAIN doc["_id"] = {"hex"}

(* C6 as claimed: no 200 response of GET /books or GET /books/{book_id} holds a *)
(* raw_html field, and each book in it has its _id as a string.                 *)
C6_Original ==
    /\ (req.path = "/books" /\ Status = 200) =>
           \A k \in DOMAIN Content.books :
               "raw_html" \notin DOMAIN Content.books[k] /\ IsStrId(Content.books[k])
    /\ (req.path = "/books/{book_id}" /\ Status = 200) =>
           ("raw_html" \notin DOMAIN Content /\ IsStrId(Content))

(* C7 as claimed, for requests the rate limiter lets through: GET /books/{book_id} *)
(* with the configured key and a book_id that is not stored gets 404 with the      *)
(* book_id in the detail; a path that matches no route gets 404 with the directory *)
(* of endpoints.                                                                   *)
C7_Original ==
    /\ (req.path = "/books/{book_id}" /\ Admitted /\ req.book_id \notin DOMAIN books) =>
           (Status = 404 /\ req.book_id \in Range(Content.detail))
    /\ req.path = "/nonexistent" =>
           (Status = 404 /\ "available_endpoints" \in DOMAIN Content)

(* C39: an authenticated GET /books/{book_id} is answered 404 only if no book *)
(* with that id is stored, and when the storage read fails the answer is a    *)
(* 5xx error.                                                                 *)
C39_Original ==
    (req.path = "/books/{book_id}" /\ HasKey) =>
        /\ Status = 404 => req.book_id \notin DOMAIN books
        /\ (req.fails /\ ~req.over_limit) => Status >= 500

BadBooksQuery ==
    /\ req.path = "/books"
    /\ \/ Param(req.query, "sort_by", "name") \notin {"rating", "price", "reviews", "name"}
       \/ Param(req.query, "page", 1) < 1
       \/ Param(req.query, "page_size", 20) < 1
       \/ Param(req.query, "page_size", 20) > 100

BadChangesQuery ==
    /\ req.path = "/changes"
    /\ \/ Param(req.query, "page", 1) < 1
       \/ Param(req.query, "page_size", 50) < 1
       \/ Param(req.query, "page_size", 50) > 100

(* C8 as claimed: GET /books with the configured key and sort_by outside {rating, *)
(* price, reviews, name}, page < 1, page_size < 1 or page_size > 100 gets 400 and *)
(* makes no storage call; so does GET /changes with such a page or page_size.     *)
C8_Original ==
    ((BadBooksQuery \/ BadChangesQuery) /\ HasKey) =>
        (Status = 400 /\ resp.db_calls = <<>>)

(* C8 as amended: the same, for a request that the rate limiter admits; a request *)
(* over the limit is answered 429.  Neither makes a storage call.                 *)
C8_Validation ==
    /\ ((BadBooksQuery \/ BadChangesQuery) /\ Admitted) =>
           (Status = 400 /\ resp.db_calls = <<>>)
    /\ ((BadBooksQuery \/ BadChangesQuery) /\ HasKey /\ req.over_limit) =>
           (Status = 429 /\ resp.db_calls = <<>>)

(* a page_size just over the maximum has been refused while books are stored *)
C8_Witness ==
    /\ req.path = "/books"
    /\ Admitted
    /\ req.query.sort_by = <<"name">>
    /\ req.query.page = <<1>>
    /\ req.query.page_size = <<101>>
    /\ DOMAIN books # {}
    /\ Status = 400

(* what a request without the configured key is answered: a function of the *)
(* X-API-Key header alone, and no storage call                              *)
Refusal(x_api_key) ==
    Served(IF x_api_key \in {<<>>, <<"">>}
           THEN JSONResponse(401, [detail |-> MissingKeyDetail])
           ELSE JSONResponse(403, [detail |-> <<"Invalid API key">>]))

(* C40: a request to /books, /books/{book_id} or /changes without the        *)
(* configured key is answered 401 or 403 with a body that depends on the     *)
(* X-API-Key header only, whatever its parameters, the stored data, the rate *)
(* limiter's verdict and the state of the backend are, and it makes no       *)
(* storage call; so two such requests with the same header get the same      *)
(* response.                                                                 *)
C40_AuthenticationFirst ==
    (req.path \in ProtectedPaths /\ ~HasKey) => resp = Refusal(req.x_api_key)

(* a wrong key with an invalid page_size, over the rate limit, while books *)
(* are stored and the backend fails, has been answered 403                 *)
C40_Witness ==
    /\ req.path = "/books"
    /\ req.x_api_key = <<"invalid_key">>
    /\ BadBooksQuery
    /\ req.over_limit
    /\ req.fails
    /\ DOMAIN books # {}
    /\ Status = 403
    /\ resp.db_calls = <<>>

Listing == req.path \in {"/books", "/changes"} /\ Status = 200

(* C9: every listing response of /books and /changes has page >= 1 and           *)
(* 1 <= page_size <= 100, was read with skip = (page-1)*page_size and limit =    *)
(* page_size, and has total_pages the least number of pages of page_size items   *)
(* that hold total items (0 for total = 0), has_next = (page < total_pages) and  *)
(* has_prev = (page > 1).                                                        *)
C9_PaginationArithmetic ==
    Listing =>
        LET page == Content.page
            page_size == Content.page_size
            total == Content.total
            total_pages == Content.total_pages
        IN  /\ page = Param(req.query, "page", 1) /\ page >= 1
            /\ page_size = Param(req.query, "page_size", IF req.path = "/books" THEN 20 ELSE 50)
            /\ page_size >= 1 /\ page_size <= 100
            /\ total >= 0
            /\ Len(resp.db_calls) = 1
            /\ resp.db_calls[1].skip = (page - 1) * page_size
            /\ resp.db_calls[1].limit = page_size
            /\ total_pages >= 0
            /\ total_pages * page_size >= total
            /\ (total_pages - 1) * page_size < total
            /\ (total = 0 => total_pages = 0)
            /\ Content.has_next = (page < total_pages)
            /\ Content.has_prev = (page > 1)
            /\ req.path = "/changes" =>
                   /\ total = Len(changes) \/ (req.fails /\ total = 0)
                   /\ ~req.fails =>
                          /\ Len(Content.changes) = Min2(page_size,
                                 IF total > (page - 1) * page_size
                                 THEN total - (page - 1) * page_size ELSE 0)
                          /\ \A k \in DOMAIN Content.changes :
                                 Content.changes[k] =
                                     WithStrId(changes[total + 1 - ((page - 1) * page_size + k)])

(* the second and last page of three logged changes, two to a page *)
C9_Witness ==
    /\ req.path = "/changes"
    /\ Status = 200
    /\ Content.total = 3
    /\ Content.page = 2
    /\ Content.page_size = 2
    /\ Content.total_pages = 2
    /\ Content.has_prev
    /\ ~Content.has_next
    /\ Len(Content.changes) = 1

-----------------------------------------------------------------------------
(* Properties of paging through query_books *)

PageIds(i) == {pg.pages[i][k].book_id : k \in DOMAIN pg.pages[i]}

AllPagesRead ==
    /\ pg # NoPaging
    /\ pg.pages # <<>>
    /\ pg.skip >= Cardinality(PagingMatching)

(* C10 as claimed, when no query met a backend error: once the pages at skip = 0, *)
(* limit, 2*limit, ... of an unchanged collection have been read with one filter  *)
(* and sort, the pages are pairwise disjoint, each has at most limit books, their *)
(* union is the set of matching books, and each call returned the number of       *)
(* matching books as total.                                                       *)
C10_Original ==
    (AllPagesRead /\ ~pg.failed) =>
        /\ \A i, j \in DOMAIN pg.pages : i # j => PageIds(i) \cap PageIds(j) = {}
        /\ \A i \in DOMAIN pg.pages : Len(pg.pages[i]) <= pg.limit
        /\ UNION {PageIds(i) : i \in DOMAIN pg.pages} = PagingMatching
        /\ \A i \in DOMAIN pg.totals : pg.totals[i] = Cardinality(PagingMatching)

-----------------------------------------------------------------------------
(* Properties of the rate limiter *)

RECURSIVE SumOver(_, _)
SumOver(f, S) ==
    IF S = {} THEN 0
    ELSE LET x == CHOOSE y \in S : TRUE IN f[x] + SumOver(f, S \ {x})

(* the identity of a request as the claim has it: the X-API-Key header value if *)
(* the header is present, otherwise the client address                          *)
HeaderIdentity(x_api_key, ip) ==
    IF x_api_key # <<>> THEN <<"api_key", x_api_key[1]>> ELSE <<"ip", ip>>

(* requests let through in the open window, per identity and route *)
ThroughByHeader(served, identity, path) ==
    SumOver(served, {w \in DOMAIN served : HeaderIdentity(w[1], w[2]) = identity /\ w[3] = path})

ThroughByKey(served, identity, path) ==
    SumOver(served, {w \in DOMAIN served : get_rate_limit_key(w[1], w[2]) = identity /\ w[3] = path})

RateSeen == rl.last.path # "none"

(* the last request passed authentication, or needed none *)
RateCounted ==
    rl.last.path = "/health" \/ rl.last.x_api_key = <<settings_api_key>>

(* C11 as claimed, identity being the X-API-Key header value if the header is   *)
(* present and else the client address: per identity and route at most          *)
(* rate_limit_per_hour requests are let through in a window; a request of an    *)
(* identity that has had that many let through on the route is answered 429 and *)
(* not served; and a request is answered 429 only if its own identity has had   *)
(* that many let through on its own route.                                      *)
C11_Original ==
    /\ \A w \in DOMAIN rl.served :
           ThroughByHeader(rl.served, HeaderIdentity(w[1], w[2]), w[3]) <= rate_limit_per_hour
    /\ RateSeen =>
         LET mine == ThroughByHeader(rl.last.before,
                                     HeaderIdentity(rl.last.x_api_key, rl.last.ip), rl.last.path)
         IN  /\ (RateCounted /\ mine >= rate_limit_per_hour) =>
                    (rl.last.response.status_code = 429 /\ rl.last.db_calls = <<>>)
             /\ rl.last.response.status_code = 429 => mine >= rate_limit_per_hour

(* C11 as amended, identity being the X-API-Key header value if the header is   *)
(* present and not empty, and else the client address: the same three.          *)
C11_RateLimit ==
    /\ \A w \in DOMAIN rl.served :
           ThroughByKey(rl.served, get_rate_limit_key(w[1], w[2]), w[3]) <= rate_limit_per_hour
    /\ RateSeen =>
         LET mine == ThroughByKey(rl.last.before,
                                  get_rate_limit_key(rl.last.x_api_key, rl.last.ip), rl.last.path)
         IN  /\ (RateCounted /\ mine >= rate_limit_per_hour) =>
                    (rl.last.response.status_code = 429 /\ rl.last.db_calls = <<>>)
             /\ rl.last.response.status_code = 429 => mine >= rate_limit_per_hour

(* a request over the limit has been refused on /books while the same key is *)
(* still under the limit on /health and another client is at the limit there *)
C11_Witness ==
    /\ rl.last.path = "/books"
    /\ rl.last.response.status_code = 429
    /\ ThroughByKey(rl.served, <<"api_key", settings_api_key>>, "/books") = rate_limit_per_hour
    /\ ThroughByKey(rl.served, <<"api_key", settings_api_key>>, "/health") < rate_limit_per_hour
    /\ ThroughByKey(rl.served, <<"ip", "10.0.0.1">>, "/health") = rate_limit_per_hour

-----------------------------------------------------------------------------
(* Properties of fetch_page, checked under SpecFetch *)

FetchFailed(task) == "none" \notin DOMAIN task.last /\ ~IsSuccess(task.last)

(* the last request ended in an HTTP status of 500 or more, or in an error *)
(* that is not an HTTP status                                               *)
TransientFailure(task) ==
    /\ FetchFailed(task)
    /\ "status" \in DOMAIN task.last => task.last.status >= 500

(* the last request ended in an HTTP error status below 500 *)
PermanentFailure(task) ==
    /\ FetchFailed(task)
    /\ "status" \in DOMAIN task.last /\ task.last.status < 500

FetchOver(task) == task.pc \in {"returned", "raised"}

RetryPolicyOf(task) ==
    /\ task.attempts <= crawler_retry_attempts
    /\ \A k \in DOMAIN task.waits :
          k < crawler_retry_attempts /\ task.waits[k] = crawler_retry_delay * k
    /\ Len(task.waits) = IF task.pc \in {"inflight", "returned", "raised"}
                         THEN task.attempts - 1 ELSE task.attempts
    /\ task.pc = "sleep" => TransientFailure(task)
    /\ task.attempts < crawler_retry_attempts /\ TransientFailure(task) => task.pc = "sleep"
    /\ task.attempts = crawler_retry_attempts /\ FetchFailed(task) => task.pc = "raised"
    /\ task.pc = "raised" => FetchFailed(task)
    /\ task.pc = "returned" <=> "none" \notin DOMAIN task.last /\ IsSuccess(task.last)

(* C12: a fetch makes at most crawler_retry_attempts requests; after failed   *)
(* request k < crawler_retry_attempts, failed by a status >= 500 or by an     *)
(* error, it waits retry_delay * k and then makes request k+1; the failure of *)
(* the last request is raised; a successful request makes the fetch return,   *)
(* and a fetch that has returned or raised makes no further request.          *)
C12_RetryPolicy ==
    /\ [](\A t \in FetchTasks : RetryPolicyOf(ft.task[t]))
    /\ [][\A t \in FetchTasks : FetchOver(ft.task[t]) => ft'.task[t] = ft.task[t]]_vars

(* a fetch that waited retry_delay, then 2 * retry_delay and so on, failed *)
(* its last request and raised, and one that returned after one retry      *)
C12_Witness ==
    \E t, u \in FetchTasks :
        /\ ft.task[t].pc = "raised" /\ ft.task[t].attempts = crawler_retry_attempts
        /\ ft.task[t].waits = [k \in 1..(crawler_retry_attempts - 1) |-> crawler_retry_delay * k]
        /\ Len(ft.task[t].waits) >= 2
        /\ ft.task[u].pc = "returned" /\ ft.task[u].attempts = 2

(* C13: a request answered by an HTTP error status below 500 is not retried: *)
(* the fetch raises at once, with no wait after that request and no request  *)
(* after it; when it answers the first request, the fetch has made exactly   *)
(* one request and no wait.                                                  *)
C13_NoRetryBelow500 ==
    \A t \in FetchTasks :
        PermanentFailure(ft.task[t]) =>
            /\ ft.task[t].pc = "raised"
            /\ Len(ft.task[t].waits) = ft.task[t].attempts - 1
            /\ ft.task[t].attempt = 0 => ft.task[t].attempts = 1 /\ ft.task[t].waits = <<>>

(* a 404 on the first request, and a 499 after a retried failure *)
C13_Witness ==
    \E t, u \in FetchTasks :
        /\ ft.task[t].last = [status |-> 404] /\ ft.task[t].attempts = 1
        /\ ft.task[u].last = [status |-> 499] /\ ft.task[u].attempts = 2
        /\ ft.task[u].waits = <<crawler_retry_delay>>

(* the fetches inside "async with self.semaphore" *)
InsideGate == {t \in FetchTasks : ft.task[t].pc \in {"attempt", "inflight", "sleep"}}

(* C14: at most crawler_concurrent_requests fetches are inside the gate      *)
(* (about to issue a request, waiting for its response, or in a backoff      *)
(* wait), whatever the interleaving; every request in flight belongs to a    *)
(* fetch inside the gate, and the gate's free places are the rest.           *)
C14_BoundedConcurrency ==
    /\ Cardinality(InsideGate) <= crawler_concurrent_requests
    /\ ft.sem = crawler_concurrent_requests - Cardinality(InsideGate)
    /\ \A t \in FetchTasks : ft.task[t].pc = "inflight" => t \in InsideGate

(* the gate is full, one fetch is in a backoff wait, another has a request in *)
(* flight, and a further fetch is waiting to enter                            *)
C14_Witness ==
    /\ Cardinality(InsideGate) = crawler_concurrent_requests
    /\ \E t, u, w \in FetchTasks :
          /\ ft.task[t].pc = "sleep" /\ ft.task[u].pc = "inflight"
          /\ ft.task[w].pc = "acquire"

-----------------------------------------------------------------------------
(* Properties of the crawl run, checked under SpecCrawl *)

(* the absolute indices of the URLs of the batches before the one at offset i *)
EarlierBatches == {cw.start_index + q : q \in 1..Min2(cw.i, Len(cw.book_urls))}

CurrentBatch == {cw.start_index + q : q \in BatchPositions(cw.book_urls, cw.i)}

(* C15: batches are processed in list order: while a batch is being fetched, *)
(* every URL of the earlier batches has been fetched and none of a later     *)
(* one, and the stored checkpoint is the one of the batch before it, with    *)
(* last_processed_index = start index + number of URLs in the batches done.  *)
C15_Original ==
    cw.status = "crawling" =>
        /\ EarlierBatches \subseteq cw.fetched
        /\ cw.fetched \subseteq EarlierBatches \cup CurrentBatch
        /\ cw.i > 0 =>
              /\ crawl_state # <<>>
              /\ crawl_state[1].last_processed_index = cw.start_index + cw.i

(* C16: after an interrupted run and a resumed run that has completed, every *)
(* book parsed in a batch checkpointed before the interrupt is in storage.   *)
C16_Original ==
    cw.status = "done" /\ cw.after_interrupt => cw.owed \subseteq DOMAIN books

(* the tasks of the run that have ended, and those that returned a Book *)
Processed == Cardinality(cw.fetched)

Yielded == Len(cw.books) + Cardinality({q \in DOMAIN cw.batch_books : cw.batch_books[q] # None})

(* C30: in a crawl_all_books run every crawl_book call that has ended has     *)
(* added one to exactly one of successful and failed: one to successful when  *)
(* it returned a Book, one to failed when it returned none.  When the loop    *)
(* over the batches has ended, every URL of the run was processed, successful *)
(* + failed is their number, and the list returned has successful books.      *)
C30_FailureAccounting ==
    /\ [](/\ cw.stats.successful + cw.stats.failed = Processed
          /\ cw.stats.successful = Yielded
          /\ cw.status \in {"saving", "done"} =>
                /\ cw.fetched = (cw.start_index + 1)..(cw.start_index + Len(cw.book_urls))
                /\ cw.stats.successful + cw.stats.failed = Len(cw.book_urls)
                /\ Len(cw.books) = cw.stats.successful)
    /\ [][(cw.status = "crawling" /\ cw'.status \in {"crawling", "saving"}
            /\ cw'.fetched # cw.fetched) =>
              \/ /\ cw'.stats.successful = cw.stats.successful + 1
                 /\ cw'.stats.failed = cw.stats.failed
              \/ /\ cw'.stats.successful = cw.stats.successful
                 /\ cw'.stats.failed = cw.stats.failed + 1]_vars

(* a run has ended in which the first URL failed and the last one, processed *)
(* after it, gave a Book                                                     *)
C30_Witness ==
    /\ cw.status = "saving"
    /\ cw.stats.failed > 0
    /\ cw.stats.successful > 0
    /\ cw.books[Len(cw.books)].book_id = cw.book_urls[Len(cw.book_urls)]
    /\ cw.books[1].book_id # cw.book_urls[1]

(* a run started with resume=True while the checkpoint saved at its start *)
(* had last_processed_index >= the number of URLs it enumerated           *)
ResumedPastEnd ==
    /\ cw.status \in {"crawling", "saving", "done"}
    /\ cw.resume
    /\ cw.saved # <<>>
    /\ cw.saved[1].last_processed_index >= cw.total_books

(* no book page fetched, no checkpoint written, no book returned *)
RunDidNothing ==
    /\ cw.status \in {"saving", "done"}
    /\ cw.fetched = {}
    /\ cw.books = <<>>
    /\ crawl_state = cw.saved

(* the checkpoint document is never removed, and the step that completes a *)
(* crawl leaves it as the last batch wrote it                              *)
CheckpointKept ==
    [][/\ crawl_state # <<>> => crawl_state' # <<>>
       /\ (cw.status = "saving" /\ cw'.status = "done") => crawl_state' = crawl_state]_vars

-----------------------------------------------------------------------------
(* Properties of the scheduler daemon, checked under SpecSched *)

(* C17: an invocation of scheduled_crawl_and_detect that ends after a failed *)
(* step has returned, not raised, and has called disconnect; the steps       *)
(* before the failure ran; and while the scheduler runs the job stays        *)
(* scheduled for a coming hour, whatever failed, so that a later tick runs   *)
(* the whole cycle again.                                                    *)
C17_CycleIsolation ==
    /\ sc.cycle.pc # "raised"
    /\ sc.cycle.pc = "returned" => sc.cycle.disconnected /\ ~sc.cycle.error
    /\ sc.cycle.pc \in {"idle"} \cup Range(CycleSteps) => ~sc.cycle.disconnected
    /\ sc.status = "running" =>
          /\ sc.next_run # <<>>
          /\ sc.next_run[1] >= sc.now
          /\ sc.next_run[1] <= sc.now + scheduler_interval_hours

(* after an invocation that failed at connect and one that failed in the    *)
(* report writing, a later invocation has run every step and returned       *)
C17_Witness ==
    /\ {"connect", "report_csv"} \subseteq sc.failed_steps
    /\ sc.cycle.pc = "returned"
    /\ sc.cycle.steps_done = Range(CycleSteps)
    /\ sc.cycle.failed_at = {}

StepsBefore(j) == {CycleSteps[i] : i \in 1..(j - 1)}

ReportSteps == {"report_json", "report_csv", "alerts", "reports"}

(* C28: in an invocation of scheduled_crawl_and_detect the steps run in the   *)
(* order connect, crawl, detection, JSON report, CSV report, alerts, reports: *)
(* a step is entered only when all steps before it have run; the four after   *)
(* detection run only if detection returned a non-empty list, and none of     *)
(* them when it returned an empty one; disconnect comes after the last step   *)
(* run, and an invocation that returns without a failure has run all of its   *)
(* steps.                                                                     *)
C28_CycleSequence ==
    LET cycle == sc.cycle
        ran == cycle.steps_done \cup cycle.failed_at
    IN  /\ \A j \in DOMAIN CycleSteps :
              /\ CycleSteps[j] \in ran => StepsBefore(j) \subseteq ran
              /\ cycle.pc = CycleSteps[j] => ran = StepsBefore(j)
              /\ CycleSteps[j] \in cycle.steps_done =>
                    StepsBefore(j) \subseteq cycle.steps_done \cup {"alerts"}
        /\ ran \cap ReportSteps # {} => cycle.changes_found = <<TRUE>>
        /\ cycle.changes_found # <<>> <=> "detect" \in cycle.steps_done
        /\ cycle.disconnected => cycle.pc \in {"returned", "raised", "cut"}
        /\ cycle.pc \in {"returned", "raised"} => cycle.disconnected
        /\ (cycle.pc = "returned" /\ cycle.failed_at = {}) =>
              cycle.steps_done = IF cycle.changes_found = <<TRUE>> THEN Range(CycleSteps)
                                 ELSE {"connect", "crawl", "detect"}

(* a second or later invocation found no change and has returned *)
C28_Witness ==
    /\ sc.cycle.pc = "returned"
    /\ sc.cycle.disconnected
    /\ sc.cycle.changes_found = <<FALSE>>
    /\ sc.cycle.steps_done = {"connect", "crawl", "detect"}
    /\ sc.started > 1

DeliveryFailed ==
    /\ sc.cycle.alert # <<>>
    /\ sc.cycle.alert[1].sessions > 0
    /\ ~sc.cycle.alert[1].success

(* C32: when send_change_alert could not deliver, it has returned False      *)
(* after a single SMTP session; send_alerts has returned normally, the next  *)
(* step is generate_reports, and the invocation, unless the daemon is        *)
(* stopped under it, goes on to disconnect and returns without an error.     *)
C32_EmailFailureIsolated ==
    /\ sc.cycle.alert # <<>> =>
          /\ sc.cycle.alert[1].success => sc.cycle.alert[1].sessions = 1
          /\ "alerts" \in sc.cycle.steps_done
    /\ DeliveryFailed =>
          /\ sc.cycle.alert[1].sessions = 1
          /\ "alerts" \notin sc.cycle.failed_at
          /\ ~sc.cycle.error
          /\ sc.cycle.pc \in {"reports", "disconnect", "returned", "cut"}
          /\ sc.cycle.pc \in {"disconnect", "returned"} =>
                "reports" \in sc.cycle.steps_done \cup sc.cycle.failed_at
          /\ sc.cycle.pc = "returned" => sc.cycle.disconnected

C32_Witness ==
    /\ DeliveryFailed
    /\ sc.cycle.pc = "returned"
    /\ "reports" \in sc.cycle.steps_done
    /\ sc.cycle.disconnected

(* C18: once started, the job's first run is due at the start time, and each *)
(* later one an interval after the one before.                               *)
C18_Original ==
    sc.status = "running" =>
        /\ sc.due = {} => sc.next_run = <<sc.started_at>>
        /\ \A t \in sc.due :
              \E k \in 0..MaxTime : t = sc.started_at + k * scheduler_interval_hours
        /\ sc.due # {} => sc.started_at \in sc.due

(* C19: after stop(), direct or through the signal handler, no invocation is *)
(* started, and the one in progress is not cut: it goes on to its disconnect *)
(* and its end.                                                              *)
C19_Original ==
    sc.started_at_stop # <<>> =>
        /\ sc.started = sc.started_at_stop[1]
        /\ ~sc.cycle.aborted

-----------------------------------------------------------------------------
(* Properties of the storage operations under a backend error, checked under *)
(* SpecStore                                                                 *)

ReadOperations ==
    {"get_book_by_id", "get_book_by_url", "query_books", "get_all_books",
     "get_recent_changes", "get_crawl_state"}

(* C20: on a backend error a read operation does not raise and returns an   *)
(* empty or absent result (no items and total 0 for the paged reads),       *)
(* whatever the store holds, while insert_book, update_book and log_change  *)
(* raise.                                                                   *)
C20_FailurePolicy ==
    sto.last.fails =>
        /\ sto.last.op \in ReadOperations => ~sto.last.raised /\ sto.last.empty
        /\ sto.last.op \in {"insert_book", "update_book", "log_change"} => sto.last.raised

(* a read that failed although the store held what it asked for, after each *)
(* of the three writes had failed once                                      *)
C20_Witness ==
    /\ sto.last.fails /\ sto.last.op = "query_books" /\ sto.last.had_data
    /\ sto.write_failed = {"insert_book", "update_book", "log_change"}
    /\ crawl_state # <<>>

-----------------------------------------------------------------------------
(* Properties of cycles on a store with history, checked under SpecCycles *)

(* the documents a step added at the end of the changes collection *)
Added == Len(changes') - Len(changes)

(* C21: no step of a crawl save, a detection run or an API request changes   *)
(* or removes a persisted ChangeLog: the collection after the step starts    *)
(* with the collection before it; it grows only in a detect_changes run, by  *)
(* the entries of the run's list in their order, all of them when the run    *)
(* returns.                                                                  *)
C21_AppendOnly ==
    [][/\ Len(changes') >= Len(changes)
       /\ SubSeq(changes', 1, Len(changes)) = changes
       /\ changes' # changes =>
             /\ dc = NoDetect /\ dc' # NoDetect
             /\ Added <= Len(dc'.changes)
             /\ \A k \in 1..Added : WithoutId(changes'[Len(changes) + k]) = dc'.changes[k]
       /\ (dc = NoDetect /\ dc' # NoDetect /\ dc'.status = "returned") =>
             Added = Len(dc'.changes)]_vars

(* a run has added to a log that an earlier run had written, and the earlier *)
(* entries are still there                                                   *)
C21_Witness ==
    /\ dc # NoDetect
    /\ dc.status = "returned"
    /\ dc.old_changes # <<>>
    /\ Len(changes) > Len(dc.old_changes)
    /\ SubSeq(changes, 1, Len(dc.old_changes)) = dc.old_changes

(* C34: when detect_changes returns after a successful read of the stored    *)
(* books, every crawled book (its book_id once in the list) that differs     *)
(* from its stored record in a compared field has an "updated" ChangeLog in  *)
(* the returned list, and the stored record holds the crawled values.        *)
C34_Original ==
    (Returned /\ ~dc.read_failed) =>
       \A i \in DOMAIN dc.new_books :
          LET b == dc.new_books[i]
          IN  (/\ StoredBefore(b.book_id)
               /\ OccursOnce(b.book_id)
               /\ DiffFields(dc.old_books[b.book_id], b) # {}) =>
                 /\ \E k \in DOMAIN dc.changes : /\ dc.changes[k].book_id = b.book_id
                                                   /\ dc.changes[k].change_type = "updated"
                 /\ WithoutId(books[b.book_id]) = b

WrittenByCall(book_id) ==
    \/ book_id \notin DOMAIN dc.old_books
    \/ books[book_id] # dc.old_books[book_id]

(* C36: when a detect_changes call has ended, by returning or by raising,    *)
(* every book it inserted or updated has its "new" or "updated" ChangeLog    *)
(* among the documents the call added to the changes collection.             *)
C36_Original ==
    dc # NoDetect =>
       \A book_id \in DOMAIN books :
          WrittenByCall(book_id) =>
             \E k \in (Len(dc.old_changes) + 1)..Len(changes) :
                /\ changes[k].book_id = book_id
                /\ changes[k].change_type \in {"new", "updated"}

(* the k-th entry of log is a "new" ChangeLog about a book that was stored  *)
(* when the call began, or that an earlier "new" entry of log is about      *)
NewForStored(log, k) ==
    /\ log[k].change_type = "new"
    /\ \/ log[k].book_id \in DOMAIN dc.old_books
       \/ \E j \in 1..(k - 1) : /\ log[j].change_type = "new"
                                /\ log[j].book_id = log[k].book_id

C33_Original ==
    (Returned /\ fn.op = "crawl_all_books") =>
       \A k \in DOMAIN dc.changes :
          dc.changes[k].change_type = "deleted" =>
             dc.changes[k].book_id \notin Range(fn.listing)

DeletedLogged(log, book_id) ==
    Cardinality({k \in DOMAIN log : /\ log[k].book_id = book_id
                                     /\ log[k].change_type = "deleted"})

(* C29: every detect_changes cycle that returns adds exactly one "deleted"    *)
(* ChangeLog to the changes collection for each stored book absent from its   *)
(* crawled list, and leaves the book stored, so that k such cycles in a row   *)
(* add k entries for it.                                                      *)
C29_Original ==
    [][(dc = NoDetect /\ dc' # NoDetect /\ dc'.status = "returned") =>
          \A book_id \in DOMAIN books \ {dc'.new_books[i].book_id : i \in DOMAIN dc'.new_books} :
             /\ DeletedLogged(changes', book_id) = DeletedLogged(changes, book_id) + 1
             /\ book_id \in DOMAIN books'
             /\ books'[book_id] = books[book_id]]_vars

-----------------------------------------------------------------------------
(* Order of the entries of a detection run *)

FromCrawl(k) == dc.changes[k].change_type \in {"new", "updated"}

(* C26: in the list detect_changes returns, the entries of the crawled books *)
(* come in the order of the crawled list, each "new" or "updated" and about  *)
(* its book, and every "deleted" entry comes after all of them; the entries  *)
(* are persisted in the order of the list.                                   *)
C26_EmissionOrder ==
    Returned =>
      /\ \A j, k \in DOMAIN dc.changes :
            (j < k /\ dc.changes[j].change_type = "deleted") => dc.changes[k].change_type = "deleted"
      /\ \A i \in DOMAIN dc.new_books :
            \A k \in dc.trace[i].first..dc.trace[i].last :
               /\ FromCrawl(k)
               /\ dc.changes[k].book_id = dc.new_books[i].book_id
      /\ \A i1, i2 \in DOMAIN dc.new_books :
            (i1 < i2 /\ dc.trace[i2].first <= dc.trace[i2].last)
               => dc.trace[i1].last < dc.trace[i2].first
      /\ \A k \in DOMAIN dc.changes :
            FromCrawl(k) => \E i \in DOMAIN dc.new_books : k \in dc.trace[i].first..dc.trace[i].last
      /\ \A k \in DOMAIN dc.changes : Persisted(k)

C26_Witness ==
    /\ Returned
    /\ \E j, k \in DOMAIN dc.changes :
          /\ j < k
          /\ FromCrawl(j)
          /\ dc.changes[k].change_type = "deleted"
          /\ Persisted(j)
          /\ Persisted(k)

-----------------------------------------------------------------------------
(* Properties of the functions that touch no store, checked under SpecEval *)

BookBuilt == fn.op \in {"Book", "parse_book_page"}

BothRatings == fn.rating # <<>> /\ fn.rating_numeric # <<>>

RatingsAgree ==
    fn.rating[1] \in DOMAIN rating_map /\ rating_map[fn.rating[1]] = fn.rating_numeric[1]

(* C22: a Book that was accepted and has both rating and rating_numeric has  *)
(* rating_numeric equal to the number of its rating; a Book in which the two *)
(* disagree is rejected.                                                     *)
C22_Original ==
    (BookBuilt /\ BothRatings /\ fn.accepted) => RatingsAgree
HashedFields == {"name", "price", "availability", "availability_count", "description", "rating"}

(* the value compute_content_hash reads for a field: None for a key the map lacks *)
FieldRead(book_data, key) == IF key \in DOMAIN book_data THEN book_data[key] ELSE <<>>

SameHashedFields ==
    \A key \in HashedFields : FieldRead(fn.book_data1, key) = FieldRead(fn.book_data2, key)

C24_Original ==
    (/\ fn.op = "get_all_book_urls"
     /\ fn.hrefs = << <<"..", "..", "..", "cat", "book_1", "index.html">>,
                      <<"..", "..", "cat", "book_1", "index.html">>,
                      <<"catalogue", "book_1", "index.html">> >>)
        => /\ fn.book_urls[1] = fn.book_urls[2]
           /\ fn.book_urls[2] = fn.book_urls[3]
-----------------------------------------------------------------------------
(* Properties of catalogue enumeration, checked under SpecEnumFair *)

Enumerating == fn.op = "enumerate"

(* the page ends the enumeration: its fetch fails or it has no book link *)
EndsEnumeration(site, page) ==
    PageAt(site, page).fetch # "html" \/ PageAt(site, page).hrefs = <<>>

RECURSIVE UrlsOfPages(_, _)
UrlsOfPages(site, n) ==
    IF n = 0 THEN <<>>
    ELSE UrlsOfPages(site, n - 1) \o
         [i \in DOMAIN PageAt(site, n).hrefs |-> full_url(PageAt(site, n).hrefs[i])]

(* C31: get_all_book_urls requests index.html, then page 2, 3, ... in order, *)
(* each once; it has returned only at the first page whose fetch failed or   *)
(* that had no book link, with the URLs of the pages before it in page       *)
(* order; and on a site that has such a page the call returns.               *)
C31_EnumerationTerminates ==
    /\ [](Enumerating =>
            /\ fn.requested = [n \in 1..Len(fn.requested) |-> listing_url(n)]
            /\ \A n \in 1..(Len(fn.requested) - 1) : ~EndsEnumeration(fn.site, n)
            /\ fn.status = "returned" =>
                  /\ fn.requested # <<>>
                  /\ EndsEnumeration(fn.site, Len(fn.requested))
                  /\ fn.book_urls = UrlsOfPages(fn.site, Len(fn.requested) - 1)
            /\ fn.status = "running" =>
                  /\ fn.page = Len(fn.requested) + 1
                  /\ fn.book_urls = UrlsOfPages(fn.site, Len(fn.requested)))
    /\ ((Enumerating /\ \E n \in 1..(MaxPages + 1) : EndsEnumeration(fn.site, n))
            ~> (Enumerating /\ fn.status = "returned"))

(* a call has returned at a page past the first after a fetch that failed, *)
(* with the links of the pages before it                                   *)
C31_Witness ==
    /\ Enumerating
    /\ fn.status = "returned"
    /\ Len(fn.requested) > 1
    /\ PageAt(fn.site, Len(fn.requested)).fetch = "raises"
    /\ Len(fn.book_urls) > 1

-----------------------------------------------------------------------------
(* Properties of save_books_to_db, checked under SpecUpsert *)

StoredAt(url) == {id \in DOMAIN books : books[id].metadata.source_url = url}

(* C25: after save_books_to_db has saved a list of books with pairwise distinct *)
(* source URLs, each book of the list has exactly one stored record; saving the *)
(* same list again leaves the set of stored book_ids as it was.                 *)
C25_Original ==
    /\ [](fn.op = "save_books_to_db" =>
            \A url \in SourceUrls(fn.crawled) : Cardinality(StoredAt(url)) = 1)
    /\ [][(fn.op = "save_books_to_db" /\ fn'.op = "save_books_to_db" /\ fn'.crawled = fn.crawled)
            => DOMAIN books' = DOMAIN books]_vars
(* the value of a compared field in the stored record and in the crawled Book *)
StoredValue(f) ==
    CASE f = "price.including_tax" -> fn.old_book.price.including_tax
      [] f = "price.excluding_tax" -> fn.old_book.price.excluding_tax
      [] OTHER -> fn.old_book[f]

CrawledValue(f) ==
    CASE f = "price.including_tax" -> fn.new_book.price.including_tax
      [] f = "price.excluding_tax" -> fn.new_book.price.excluding_tax
      [] OTHER -> fn.new_book[f]

ComparisonSet ==
    <<"name", "description", "category", "price.including_tax", "price.excluding_tax",
      "availability", "availability_count", "num_reviews", "rating", "rating_numeric">>

Unequal == {f \in Range(ComparisonSet) : StoredValue(f) # CrawledValue(f)}

Place(f) == CHOOSE i \in DOMAIN ComparisonSet : ComparisonSet[i] = f

(* C27: compare_books returns no ChangeLog when the stored record and the      *)
(* crawled Book agree on all ten compared fields; otherwise changed_fields     *)
(* lists exactly the unequal fields, each once, in the order of the comparison *)
(* set, and old_values and new_values have exactly those keys, with the stored *)
(* and the crawled value of each.                                              *)
C27_CompareExact ==
    fn.op = "compare_books" =>
      IF Unequal = {} THEN fn.change = << None >>
      ELSE LET change == fn.change[1]
           IN  /\ fn.change # << None >>
               /\ Range(change.changed_fields) = Unequal
               /\ Len(change.changed_fields) = Cardinality(Unequal)
               /\ \A i, j \in DOMAIN change.changed_fields :
                     i < j => Place(change.changed_fields[i]) < Place(change.changed_fields[j])
               /\ DOMAIN change.old_values = Unequal
               /\ DOMAIN change.new_values = Unequal
               /\ \A f \in Unequal : /\ change.old_values[f] = StoredValue(f)
                                      /\ change.new_values[f] = CrawledValue(f)

C27_Witness ==
    /\ fn.op = "compare_books"
    /\ {"name", "price.excluding_tax", "rating_numeric"} \subseteq Unequal
    /\ "rating" \notin Unequal
    /\ fn.change # << None >>
    /\ Len(fn.change[1].changed_fields) = Cardinality(Unequal)

====
